---- MODULE Spec2Model ----
(***************************************************************************)
(* Orchestration / integrity subsystem of the simulation backend:          *)
(*   - the SHA-256 epoch ledger (app/services/hash_chain.py),              *)
(*   - the engine's epoch loop and its pause/resume/stop flags             *)
(*     (simulation/engine.py),                                             *)
(*   - the Dashboard run lifecycle (app/services/run_manager.py driven by  *)
(*     app/api/runs.py),                                                   *)
(*   - the Control Deck run lifecycle (app/api/control.py).                *)
(*                                                                         *)
(* Strings that the code orders or converts (JSON object keys) are         *)
(* sequences of character codes, so that Python's numeric ordering of int  *)
(* keys and lexicographic ordering of str keys are both computed.          *)
(* SHA-256 is modelled as a collision-free function: the digest of a       *)
(* payload is the payload itself.                                          *)
(***************************************************************************)
EXTENDS Integers, Sequences, FiniteSets, TLC

VARIABLES
    \* ---- ledger functions exercised on their own (SpecChain) ----
    metrics_list,   \* argument of build_chain
    run_seed,       \* argument of build_chain / verify_chain
    chain,          \* list of {epoch, hash, prev_hash, metrics_json}
    verdict,        \* last result of verify_chain
    phase,          \* "input" | "built" | "verified" | "tampered" | "tamper_verified"
    tampered_at,    \* index (0-based) of the entry rewritten by Tamper, or None
    \* ---- the store (tables runs and epoch_logs), per run id ----
    launcher,       \* "dashboard" (POST /api/runs) | "control_deck" (POST /api/control/start) | "none"
    protocol,       \* SimulationConfig.protocol of the engine of each run
    run_status,     \* Run.status, "absent" while the row does not exist
    run_seed_col,   \* Run.seed
    current_epoch,  \* Run.current_epoch
    final_hash,     \* Run.final_hash, NoHash while NULL
    epoch_logs,     \* EpochLog rows of the run, in insertion order
    \* ---- SimulationEngine of each run ----
    _paused,        \* engine._paused
    _stopped,       \* engine._stopped
    epoch_metrics,  \* engine.epoch_metrics, each entry reduced to its "epoch"
    \* ---- the worker of each run ----
    pc,             \* position of the worker in _run_in_thread / _run and engine.run
    epoch,          \* loop variable of engine.run
    worker_prev_hash,   \* the callback's nonlocal prev_hash
    worker_metrics,     \* metrics dict of the epoch in flight (EmptyDict between epochs)
    \* ---- RunManager / runs API (Dashboard) ----
    queue,          \* RunManager._queues[run_id]
    api,            \* lifecycle request of app/api/runs.py being served
    \* ---- Control Deck: the module-level _state of app/api/control.py ----
    d_status,       \* _state["status"]
    d_engine,       \* _state["engine"]: 0 for None, else the run whose engine it is
    d_run_id,       \* _state["run_id"]: 0 for None
    d_current_epoch,    \* _state["current_epoch"]
    d_live_epochs,  \* _state["live_epochs"], each entry reduced to its "epoch"
    d_error,        \* _state["error"] is set
    starts_left,    \* start requests the Control Deck will still receive
    \* ---- history, read by the properties only ----
    stop_accepted,  \* a stop request found the run's status running or paused
    paused_appends, \* EpochLog rows appended since engine._paused last became true
    pulled,         \* a consumer has taken an item from the run's queue
    \* ---- CommBuffer (SpecComm) ----
    _buffer,        \* CommBuffer._buffer: <<name, signal>> pairs in dict insertion order
    _killed,        \* CommBuffer._killed
    result,         \* what the last CommBuffer call returned (NoResult for None)
    last_sent,      \* history: the signals sent since the last clear()/reset()
    after_restore,  \* history: the last call that changed the buffer object was a
                    \* restore() that ended a kill
    _type_buffer,   \* CommBuffer._type_buffer: agent name -> signal type
    _history,       \* CommBuffer._history: the snapshots taken by record_history
    _type_history,  \* CommBuffer._type_history
    held,           \* the tensor object a caller of the CommBuffer keeps a reference to
    \* ---- wall clock, and two runs side by side (SpecTwin) ----
    clock,          \* time.time(), counted in reads
    twin_logs,      \* the EpochLog rows of two runs launched with the same configuration
    \* ---- units exercised on their own ----
    loop,           \* SimulationEngine._run_epoch: the position of the episode and step
                    \* loops and what the current step received, sent and was charged
    loom,           \* a sequence of epoch records and what each crystallization
                    \* detector returned for it
    schedule,       \* the epoch get_tau was last called with, and what it returned
    body_protocol   \* RunCreate.protocol of the creation request

chainVars == <<metrics_list, run_seed, chain, verdict, phase, tampered_at>>
storeVars == <<run_status, run_seed_col, current_epoch, final_hash, epoch_logs>>
engineVars == <<_paused, _stopped, epoch_metrics>>
workerVars == <<pc, epoch, worker_prev_hash, worker_metrics>>
dashVars == <<queue, api>>
deckVars == <<d_status, d_engine, d_run_id, d_current_epoch, d_live_epochs, d_error,
             starts_left>>
historyVars == <<stop_accepted, paused_appends, pulled>>
lifeVars == <<launcher, protocol, storeVars, engineVars, workerVars, dashVars, deckVars, historyVars>>

frameVars == <<_type_buffer, _history, _type_history>>
commVars == <<_buffer, _killed, result, last_sent, after_restore, frameVars, held>>
twinVars == <<clock, twin_logs>>
unitVars == <<loop, loom, schedule, body_protocol>>
sideVars == <<commVars, twinVars, unitVars>>

vars == <<chainVars, lifeVars, sideVars>>

----------------------------------------------------------------------------
(* Bounds *)

MaxChainLen == 2        \* longest metrics list handed to build_chain
MaxSeed == 2            \* seeds are drawn from 1..MaxSeed
NumEpochs == 3          \* RunCreate.num_epochs of the Dashboard run
DeckEpochs == 1         \* StartConfig.epochs of the Control Deck runs
MaxClock == 4           \* the clock is read up to MaxClock; later reads return MaxClock
MaxRuns == 2            \* run ids are 1..MaxRuns
QueueSize == 2          \* capacity of the delivery queue (200 in start_run)

----------------------------------------------------------------------------
(* Python values *)

None == -1              \* Python None where an epoch number is expected

\* character codes
Ch0 == 48
ChA == 97
EpochStr == <<101, 112, 111, 99, 104>>      \* "epoch"

\* str(n) for a non-negative int
RECURSIVE Digits(_)
Digits(n) == IF n < 10 THEN <<Ch0 + n>> ELSE Digits(n \div 10) \o <<Ch0 + (n % 10)>>

\* Python's str < str: code point by code point, a proper prefix is smaller
RECURSIVE StrLess(_, _)
StrLess(a, b) ==
    IF b = <<>> THEN FALSE
    ELSE IF a = <<>> THEN TRUE
    ELSE IF Head(a) # Head(b) THEN Head(a) < Head(b)
    ELSE StrLess(Tail(a), Tail(b))

\* dict keys: an int key n or a str key s
IntKey(n) == [isint |-> TRUE, n |-> n, s |-> <<>>]
StrKey(s) == [isint |-> FALSE, n |-> 0, s |-> s]
EpochKey == StrKey(EpochStr)

\* dict values: a JSON number, a str, or an object json cannot serialise
\* (a numpy scalar, a tensor) whose str() is the decimal form of n
Num(n) == <<"num", n>>
Str(n) == <<"str", n>>
Obj(n) == <<"obj", n>>

----------------------------------------------------------------------------
(* app/services/hash_chain.py *)

GENESIS_HASH == <<"0">>

\* sorted(keys) as json.dumps(sort_keys=True) does it: by the keys themselves,
\* BEFORE they are converted to strings (int keys numerically, str keys by
\* code point; a dict mixing the two raises TypeError and is no input here)
KeyLess(k1, k2) == IF k1.isint /\ k2.isint THEN k1.n < k2.n ELSE StrLess(k1.s, k2.s)

RECURSIVE SortKeys(_)
SortKeys(S) ==
    IF S = {} THEN <<>>
    ELSE LET k == CHOOSE x \in S : \A y \in S \ {x} : KeyLess(x, y)
         IN  <<k>> \o SortKeys(S \ {k})

\* the text json.dumps writes for a key and for a value (default=str)
KeyText(k) == IF k.isint THEN Digits(k.n) ELSE k.s
ValueText(v) == IF v[1] = "obj" THEN Str(v[2]) ELSE v

\* canonical_json: the JSON text, as the list of its "key":value members in
\* the order they are written
canonical_json(data) ==
    LET ks == SortKeys(DOMAIN data)
    IN  [i \in 1..Len(ks) |-> <<KeyText(ks[i]), ValueText(data[ks[i]])>>]

\* json.loads: every key is a str; a repeated key keeps its last value
json_loads(text) ==
    LET names == {text[i][1] : i \in 1..Len(text)}
        last(nm) == CHOOSE i \in 1..Len(text) :
                        /\ text[i][1] = nm
                        /\ \A j \in 1..Len(text) : text[j][1] = nm => j <= i
    IN  [k \in {StrKey(nm) : nm \in names} |-> text[last(k.s)][2]]

\* sha256 of f"{prev_hash}|{canonical_json(metrics)}|{run_seed}"
compute_hash(prev_hash, metrics, seed) == <<prev_hash, canonical_json(metrics), seed>>

\* metrics.get("epoch", default)
GetEpoch(metrics, default) ==
    IF EpochKey \in DOMAIN metrics THEN metrics[EpochKey][2] ELSE default

RECURSIVE build_from(_, _, _, _)
build_from(acc, prev_hash, rest, seed) ==
    IF rest = <<>> THEN acc
    ELSE LET metrics == Head(rest)
             current_hash == compute_hash(prev_hash, metrics, seed)
             entry == [epoch |-> GetEpoch(metrics, Len(acc)),
                       hash |-> current_hash,
                       prev_hash |-> prev_hash,
                       metrics_json |-> canonical_json(metrics)]
         IN  build_from(Append(acc, entry), current_hash, Tail(rest), seed)

build_chain(epoch_metrics_list, seed) ==
    build_from(<<>>, GENESIS_HASH, epoch_metrics_list, seed)

Valid == [valid |-> TRUE, first_invalid |-> None]
Invalid(e) == [valid |-> FALSE, first_invalid |-> e]

RECURSIVE verify_from(_, _, _)
verify_from(prev_hash, rest, seed) ==
    IF rest = <<>> THEN Valid
    ELSE LET entry == Head(rest)
             metrics == json_loads(entry.metrics_json)
             expected_hash == compute_hash(prev_hash, metrics, seed)
         IN  IF entry.hash # expected_hash THEN Invalid(entry.epoch)
             ELSE IF entry.prev_hash # prev_hash THEN Invalid(entry.epoch)
             ELSE verify_from(entry.hash, Tail(rest), seed)

verify_chain(c, seed) == verify_from(GENESIS_HASH, c, seed)

----------------------------------------------------------------------------
(* The ledger functions on their own: build a chain from any metrics list,  *)
(* optionally rewrite the stored metrics of one entry, verify.              *)

\* metrics maps the functions are exercised on: dicts with int keys, dicts
\* with str keys ("a", "epoch"), values numbers, strs and non-JSON objects
IntDicts == UNION {[D -> {Num(1)}] : D \in SUBSET {IntKey(2), IntKey(10)}}
StrDicts == UNION {[D -> {Num(1), Str(1), Obj(1)}] : D \in SUBSET {StrKey(<<ChA>>)}}
MetricsMaps ==
    IntDicts \cup
    {a @@ e : a \in StrDicts,
              e \in {<<>>} \cup {EpochKey :> Num(n) : n \in 0..MaxChainLen}}

MetricsLists == UNION {[1..n -> MetricsMaps] : n \in 0..MaxChainLen}

Runs == 1..MaxRuns
NoHash == <<>>
EmptyDict == <<>>
NoRequest == [cmd |-> "none", run |-> 0, loaded |-> "none"]

\* nothing launched: the state of the store, engines and workers before any run
\* a CommBuffer as __init__ leaves it
NoResult == [agent |-> 0, value |-> <<>>]
\* no tensor is held.  `sent` names the agent for which the held object was
\* passed to send() (0: never), `alias` the agent whose stored signal is the
\* very object the caller holds (0: the buffer stores no such object)
NoTensor == [value |-> <<>>, sent |-> 0, alias |-> 0]
CommIdle ==
    /\ _buffer = <<>>
    /\ _killed = FALSE
    /\ result = NoResult
    /\ last_sent = <<>>
    /\ after_restore = FALSE
    /\ _type_buffer = <<>>
    /\ _history = <<>>
    /\ _type_history = <<>>
    /\ held = NoTensor

\* no time has been read, no run of the pair has started
TwinIdle == clock = 0 /\ twin_logs = <<<<>>, <<>>>>

\* SimulationConfig.protocol: int = 1
DefaultProtocol == 1
Protocols == {0, 1}

\* _run_epoch about to start the first episode of an epoch, for a configuration
\* of n episodes per epoch and a QUERY cost multiplier of qc tenths.  `killed`
\* is the kill flag the last step's receive_all calls saw, `incoming` what
\* each agent received in the last step, `sent` what the agents sent in it,
\* `before` what they sent in the step before it of the same episode,
\* `query_tax` what compute_reward charged in this epoch for signals typed
\* QUERY, `extras` what compute_epoch_extras returned for the last epoch
NewLoop(n, qc) ==
    [episodes_per_epoch |-> n, query_cost |-> qc, episode |-> 0, step |-> 0,
     killed |-> FALSE, incoming |-> <<>>, sent |-> <<>>, before |-> <<>>,
     query_tax |-> 0, extras |-> <<>>]

\* no epoch has run under protocol p, the detectors have not been called
NewLoom(p) ==
    [protocol |-> p, epochs |-> <<>>,
     crystallization_epoch |-> [manifest |-> None, stored |-> None, live |-> None,
                                called |-> FALSE]]

\* get_tau has not been called
NewSchedule(p) == [protocol |-> p, epoch |-> None, tau |-> 0]

Units(l, m, s, bp) == loop = l /\ loom = m /\ schedule = s /\ body_protocol = bp

\* no unit is exercised
UnitIdle ==
    Units(NewLoop(0, 0), NewLoom(DefaultProtocol), NewSchedule(DefaultProtocol), DefaultProtocol)

LifeIdle ==
    /\ launcher = "none"
    /\ protocol = [r \in Runs |-> DefaultProtocol]
    /\ run_status = [r \in Runs |-> "absent"]
    /\ run_seed_col = [r \in Runs |-> 0]
    /\ current_epoch = [r \in Runs |-> 0]
    /\ final_hash = [r \in Runs |-> NoHash]
    /\ epoch_logs = [r \in Runs |-> <<>>]
    /\ _paused = [r \in Runs |-> FALSE]
    /\ _stopped = [r \in Runs |-> FALSE]
    /\ epoch_metrics = [r \in Runs |-> <<>>]
    /\ pc = [r \in Runs |-> "none"]
    /\ epoch = [r \in Runs |-> 0]
    /\ worker_prev_hash = [r \in Runs |-> GENESIS_HASH]
    /\ worker_metrics = [r \in Runs |-> EmptyDict]
    /\ queue = [r \in Runs |-> <<>>]
    /\ api = NoRequest
    /\ d_status = "idle"
    /\ d_engine = 0
    /\ d_run_id = 0
    /\ d_current_epoch = 0
    /\ d_live_epochs = <<>>
    /\ d_error = FALSE
    /\ starts_left = 0
    /\ stop_accepted = [r \in Runs |-> FALSE]
    /\ paused_appends = [r \in Runs |-> 0]
    /\ pulled = [r \in Runs |-> FALSE]

InitChain ==
    /\ LifeIdle
    /\ CommIdle
    /\ TwinIdle /\ UnitIdle
    /\ metrics_list \in MetricsLists
    /\ run_seed \in 1..MaxSeed
    /\ chain = <<>>
    /\ verdict = Valid
    /\ phase = "input"
    /\ tampered_at = None

BuildChain ==
    /\ phase = "input"
    /\ chain' = build_chain(metrics_list, run_seed)
    /\ phase' = "built"
    /\ UNCHANGED <<metrics_list, run_seed, verdict, tampered_at, lifeVars, sideVars>>

\* the stored metrics of entry k (0-based) are replaced by other metrics;
\* the hash columns and every other entry are left as they were
Tamper(k, m) ==
    /\ phase = "built"
    /\ k + 1 \in DOMAIN chain
    /\ json_loads(canonical_json(m)) # json_loads(chain[k + 1].metrics_json)
    /\ chain' = [chain EXCEPT ![k + 1].metrics_json = canonical_json(m)]
    /\ tampered_at' = k
    /\ phase' = "tampered"
    /\ UNCHANGED <<metrics_list, run_seed, verdict, lifeVars, sideVars>>

VerifyChain ==
    /\ phase \in {"built", "tampered"}
    /\ verdict' = verify_chain(chain, run_seed)
    /\ phase' = IF phase = "built" THEN "verified" ELSE "tamper_verified"
    /\ UNCHANGED <<metrics_list, run_seed, chain, tampered_at, lifeVars, sideVars>>

NextChain ==
    \/ BuildChain
    \/ \E k \in 0..(MaxChainLen - 1), m \in MetricsMaps : Tamper(k, m)
    \/ VerifyChain

SpecChain == InitChain /\ [][NextChain]_vars

\* C1: a chain built by build_chain from any metrics list verifies against
\* the same seed: verify_chain(build_chain(M, s), s) = (True, None).
C1_BuiltChainVerifies == phase = "verified" => verdict = Valid

\* C2: after the stored metrics of the entry at index k of a built chain are
\* changed, verify_chain returns (False, k).
C2_TamperReportsIndex == phase = "tamper_verified" => verdict = Invalid(tampered_at)

----------------------------------------------------------------------------
(* simulation/engine.py: the epoch loop of SimulationEngine.run and the     *)
(* control methods.  The worker of run r is at                              *)
(*   "loop"        the head of `for epoch in range(num_epochs)`,            *)
(*   "pause_check" the test of `while self._paused`,                        *)
(*   "sleeping"    inside time.sleep(0.1),                                  *)
(*   "in_epoch"    inside _run_epoch(epoch),                                *)
(*   "callback"    at the call of epoch_callback(metrics),                  *)
(*   "returned"    after run() returned, "except" after it raised.          *)

Terminal == {"completed", "stopped", "failed"}

TargetRateStr == <<116, 97, 114, 103, 101, 116, 95, 114, 101, 97, 99, 104, 101, 100, 95, 114, 97, 116, 101>>
AvgEnergyStr == <<97, 118, 103, 95, 101, 110, 101, 114, 103, 121, 95, 115, 112, 101, 110, 116>>
EnergyRoiStr == <<101, 110, 101, 114, 103, 121, 95, 114, 111, 105>>
TransferEntropyStr == <<116, 114, 97, 110, 115, 102, 101, 114, 95, 101, 110, 116, 114, 111, 112, 121>>
ZipfStr == <<122, 105, 112, 102>>
TimestampStr == <<116, 105, 109, 101, 115, 116, 97, 109, 112>>

\* a nested dict value, kept opaque
Dict == <<"dict", 0>>

\* (target_reached_rate, avg_energy_spent) of an epoch: every episode of epoch
\* e resets the environment with episode_seed = seed + e, and the outcome is a
\* function of that seed
EpochOutcome(seed, e) == <<(seed + e) % 2, (seed + e) % 2>>

compute_energy_roi(target_reached_rate, avg_energy_spent) ==
    IF avg_energy_spent <= 0 THEN 0 ELSE target_reached_rate \div avg_energy_spent

\* the metrics dict _run_epoch(e) returns
InquiryStr == <<105, 110, 113, 117, 105, 114, 121>>     \* "inquiry"
\* "comm_killed"
CommKilledStr == <<99, 111, 109, 109, 95, 107, 105, 108, 108, 101, 100>>

\* protocol.compute_epoch_extras: {} for Protocol0, {'inquiry': ...} for Protocol1
compute_epoch_extras(p) == IF p = 1 THEN (StrKey(InquiryStr) :> Dict) ELSE <<>>

\* the metrics dict _run_epoch builds; is_killed is comm_buffer.is_killed as
\* the dict literal reads it
EngineMetrics(e, o, t, p, is_killed) ==
    (EpochKey :> Num(e))
    @@ (StrKey(TargetRateStr) :> Num(o[1]))
    @@ (StrKey(AvgEnergyStr) :> Num(o[2]))
    @@ (StrKey(TransferEntropyStr) :> Dict)
    @@ (StrKey(ZipfStr) :> Dict)
    @@ (StrKey(CommKilledStr) :> <<"bool", is_killed>>)
    @@ (StrKey(TimestampStr) :> Num(t))
    @@ (StrKey(EnergyRoiStr) :> Num(compute_energy_roi(o[1], o[2])))
    @@ compute_epoch_extras(p)

\* time passes between two reads of time.time()
Tick(t) == IF t < MaxClock THEN t + 1 ELSE t

\* self.config.num_epochs of the engine of run r
num_epochs(r) == IF launcher = "control_deck" THEN DeckEpochs ELSE NumEpochs

\* `for epoch in range(num_epochs): if self._stopped: break`
LoopCheck(r) ==
    /\ pc[r] = "loop"
    /\ pc' = [pc EXCEPT ![r] = IF epoch[r] >= num_epochs(r) \/ _stopped[r]
                                THEN "returned" ELSE "pause_check"]
    /\ UNCHANGED <<chainVars, sideVars, historyVars, launcher, protocol, storeVars, engineVars, epoch,
                   worker_prev_hash, worker_metrics, dashVars, deckVars>>

\* a pause loop that does not test the flag
PauseCheck_IgnoresPause(r) ==
    /\ pc[r] = "pause_check"
    /\ pc' = [pc EXCEPT ![r] = "in_epoch"]
    /\ UNCHANGED <<chainVars, sideVars, historyVars, launcher, protocol, storeVars, engineVars, epoch,
                   worker_prev_hash, worker_metrics, dashVars, deckVars>>

\* `while self._paused:` - when the flag is clear the loop is left and
\* _run_epoch(epoch) is entered
PauseCheck(r) ==
    /\ pc[r] = "pause_check"
    /\ pc' = [pc EXCEPT ![r] = IF _paused[r] THEN "sleeping" ELSE "in_epoch"]
    /\ UNCHANGED <<chainVars, sideVars, historyVars, launcher, protocol, storeVars, engineVars, epoch,
                   worker_prev_hash, worker_metrics, dashVars, deckVars>>

\* a pause loop that is left on stop only, never on resume
Sleep_NeverWakes(r) ==
    /\ pc[r] = "sleeping"
    /\ pc' = [pc EXCEPT ![r] = IF _stopped[r] THEN "in_epoch" ELSE "sleeping"]
    /\ UNCHANGED <<chainVars, sideVars, historyVars, launcher, protocol, storeVars, engineVars, epoch,
                   worker_prev_hash, worker_metrics, dashVars, deckVars>>

\* `time.sleep(0.1); if self._stopped: break` - the break leaves the while
\* loop only, so the statement after it, _run_epoch(epoch), is entered
Sleep(r) ==
    /\ pc[r] = "sleeping"
    /\ pc' = [pc EXCEPT ![r] = IF _stopped[r] THEN "in_epoch" ELSE "pause_check"]
    /\ UNCHANGED <<chainVars, sideVars, historyVars, launcher, protocol, storeVars, engineVars, epoch,
                   worker_prev_hash, worker_metrics, dashVars, deckVars>>

\* an engine that runs the epoch but does not call epoch_callback
RunEpoch_NoCallback(r) ==
    /\ pc[r] = "in_epoch"
    /\ epoch' = [epoch EXCEPT ![r] = @ + 1]
    /\ clock' = Tick(clock)
    /\ epoch_metrics' = [epoch_metrics EXCEPT ![r] = Append(@, epoch[r])]
    /\ _killed' = FALSE                 \* self.comm_buffer.reset() ends every epoch
    /\ pc' = [pc EXCEPT ![r] = "loop"]
    /\ UNCHANGED <<chainVars, _buffer, result, last_sent, after_restore, frameVars, held,
                   twin_logs, unitVars, historyVars, launcher, protocol, storeVars, _paused, _stopped, worker_metrics,
                   worker_prev_hash, dashVars, deckVars>>

\* `metrics = self._run_epoch(epoch); self.epoch_metrics.append(metrics)`
RunEpoch(r) ==
    /\ pc[r] = "in_epoch"
    /\ _killed' = FALSE                 \* self.comm_buffer.reset() ends every epoch
    \* the metrics dict is built after the reset and reads is_killed then
    /\ worker_metrics' = [worker_metrics EXCEPT ![r] =
                              EngineMetrics(epoch[r], EpochOutcome(run_seed_col[r], epoch[r]), clock,
                                            protocol[r], _killed')]
    /\ clock' = Tick(clock)
    /\ epoch_metrics' = [epoch_metrics EXCEPT ![r] = Append(@, epoch[r])]
    /\ pc' = [pc EXCEPT ![r] = "callback"]
    /\ UNCHANGED <<chainVars, _buffer, result, last_sent, after_restore, frameVars, held,
                   twin_logs, unitVars, historyVars, launcher, protocol, storeVars, _paused, _stopped, epoch,
                   worker_prev_hash, dashVars, deckVars>>

\* a Learner, Environment or protocol call raises inside _run_epoch
EngineFault(r) ==
    /\ pc[r] = "in_epoch"
    /\ pc' = [pc EXCEPT ![r] = "except"]
    /\ UNCHANGED <<chainVars, sideVars, historyVars, launcher, protocol, storeVars, engineVars, epoch,
                   worker_prev_hash, worker_metrics, dashVars, deckVars>>

\* SimulationEngine.pause / resume / stop
EnginePause(r) == _paused' = [_paused EXCEPT ![r] = TRUE] /\ UNCHANGED _stopped
EngineResume(r) == _paused' = [_paused EXCEPT ![r] = FALSE] /\ UNCHANGED _stopped
EngineStop(r) ==
    /\ _stopped' = [_stopped EXCEPT ![r] = TRUE]
    /\ _paused' = [_paused EXCEPT ![r] = FALSE]

----------------------------------------------------------------------------
(* app/services/run_manager.py and app/api/runs.py: the Dashboard run.      *)

STREAM_END == -2        \* the sentinel object _STREAM_END, as a queue item

With(m, k, v) == [x \in DOMAIN m \cup {k} |-> IF x = k THEN v ELSE m[x]]
SetDefault(m, k, v) == IF k \in DOMAIN m THEN m ELSE With(m, k, v)
Get(m, k, default) == IF k \in DOMAIN m THEN m[k][2] ELSE default

\* the metrics dict as epoch_callback hashes and stores it
CallbackMetrics(m) ==
    LET roi == compute_energy_roi(Get(m, StrKey(TargetRateStr), 0),
                                  Get(m, StrKey(AvgEnergyStr), 0))
    IN  SetDefault(SetDefault(With(m, StrKey(EnergyRoiStr), Num(roi)),
                              StrKey(TransferEntropyStr), Dict),
                   StrKey(ZipfStr), Dict)

\* the handler of thread_queue.Full: q.get_nowait(), tolerating an empty
\* queue, then q.put_nowait(metrics)
PutDropOldest(q, item) ==
    Append(IF q = <<>> THEN q ELSE Tail(q), item)

\* create_run has returned for a request of protocol bp: the Run row is
\* stored with status "pending", the engine (of a config of protocol p) and
\* the queue are registered and the task is created
InitRun(bp, p) ==
    /\ metrics_list = <<>> /\ run_seed = 1 /\ chain = <<>>
    /\ verdict = Valid /\ phase = "off" /\ tampered_at = None
    /\ launcher = "dashboard"
    /\ protocol = [r \in Runs |-> p]
    /\ run_status = [r \in Runs |-> IF r = 1 THEN "pending" ELSE "absent"]
    /\ \E sd \in 1..MaxSeed : run_seed_col = [r \in Runs |-> IF r = 1 THEN sd ELSE 0]
    /\ current_epoch = [r \in Runs |-> 0]
    /\ final_hash = [r \in Runs |-> NoHash]
    /\ epoch_logs = [r \in Runs |-> <<>>]
    /\ _paused = [r \in Runs |-> FALSE]
    /\ _stopped = [r \in Runs |-> FALSE]
    /\ epoch_metrics = [r \in Runs |-> <<>>]
    /\ pc = [r \in Runs |-> IF r = 1 THEN "created" ELSE "none"]
    /\ epoch = [r \in Runs |-> 0]
    /\ worker_prev_hash = [r \in Runs |-> GENESIS_HASH]
    /\ worker_metrics = [r \in Runs |-> EmptyDict]
    /\ queue = [r \in Runs |-> <<>>]
    /\ api = NoRequest
    /\ d_status = "idle" /\ d_engine = 0 /\ d_run_id = 0
    /\ d_current_epoch = 0 /\ d_live_epochs = <<>> /\ d_error = FALSE
    /\ starts_left = 0
    /\ stop_accepted = [r \in Runs |-> FALSE]
    /\ paused_appends = [r \in Runs |-> 0]
    /\ pulled = [r \in Runs |-> FALSE]
    /\ CommIdle
    /\ TwinIdle
    /\ Units(NewLoop(0, 0), NewLoom(DefaultProtocol), NewSchedule(DefaultProtocol), bp)

\* RunManager.start_run with a config of protocol p
InitDashWith(p) == InitRun(DefaultProtocol, p)

\* create_run builds its SimulationConfig without a protocol, so the engine
\* gets the default
InitDash == InitDashWith(DefaultProtocol)

\* _run_in_thread up to `await asyncio.to_thread(engine.run)`
DashWorkerStart(r) ==
    /\ launcher = "dashboard"
    /\ pc[r] = "created"
    /\ run_status' = [run_status EXCEPT ![r] = "running"]
    /\ pc' = [pc EXCEPT ![r] = "loop"]
    /\ UNCHANGED <<chainVars, sideVars, historyVars, launcher, protocol, run_seed_col, current_epoch, final_hash,
                   epoch_logs, engineVars, epoch, worker_prev_hash, worker_metrics,
                   dashVars, deckVars>>

\* an epoch_callback that omits `prev_hash = current_hash`
DashPersist_StalePrev(r) ==
    /\ launcher = "dashboard"
    /\ pc[r] = "callback"
    /\ LET m == CallbackMetrics(worker_metrics[r])
           current_hash == compute_hash(worker_prev_hash[r], m, run_seed_col[r])
           epoch_log == [epoch |-> m[EpochKey][2],
                         metrics_json |-> canonical_json(m),
                         hash |-> current_hash,
                         prev_hash |-> worker_prev_hash[r]]
       IN  /\ epoch_logs' = [epoch_logs EXCEPT ![r] = Append(@, epoch_log)]
           /\ current_epoch' = [current_epoch EXCEPT ![r] = m[EpochKey][2] + 1]
           /\ final_hash' = [final_hash EXCEPT ![r] = current_hash]
           /\ UNCHANGED worker_prev_hash
           /\ worker_metrics' = [worker_metrics EXCEPT ![r] = m]
    /\ paused_appends' = [paused_appends EXCEPT ![r] = IF _paused[r] THEN @ + 1 ELSE @]
    /\ pc' = [pc EXCEPT ![r] = "push"]
    /\ UNCHANGED <<chainVars, sideVars, stop_accepted, pulled, launcher, protocol, run_status, run_seed_col, engineVars, epoch,
                   dashVars, deckVars>>

\* epoch_callback up to and including db.commit()
DashPersist(r) ==
    /\ launcher = "dashboard"
    /\ pc[r] = "callback"
    /\ LET m == CallbackMetrics(worker_metrics[r])
           current_hash == compute_hash(worker_prev_hash[r], m, run_seed_col[r])
           epoch_log == [epoch |-> m[EpochKey][2],
                         metrics_json |-> canonical_json(m),
                         hash |-> current_hash,
                         prev_hash |-> worker_prev_hash[r]]
       IN  /\ epoch_logs' = [epoch_logs EXCEPT ![r] = Append(@, epoch_log)]
           /\ current_epoch' = [current_epoch EXCEPT ![r] = m[EpochKey][2] + 1]
           /\ final_hash' = [final_hash EXCEPT ![r] = current_hash]
           /\ worker_prev_hash' = [worker_prev_hash EXCEPT ![r] = current_hash]
           /\ worker_metrics' = [worker_metrics EXCEPT ![r] = m]
    /\ paused_appends' = [paused_appends EXCEPT ![r] = IF _paused[r] THEN @ + 1 ELSE @]
    /\ pc' = [pc EXCEPT ![r] = "push"]
    /\ UNCHANGED <<chainVars, sideVars, stop_accepted, pulled, launcher, protocol, run_status, run_seed_col, engineVars, epoch,
                   dashVars, deckVars>>

\* db.commit() raises: nothing of the epoch is stored and the exception leaves
\* epoch_callback and engine.run
DashPersistFails(r) ==
    /\ launcher = "dashboard"
    /\ pc[r] = "callback"
    /\ pc' = [pc EXCEPT ![r] = "except_db"]
    /\ UNCHANGED <<chainVars, sideVars, historyVars, launcher, protocol, storeVars, engineVars, epoch,
                   worker_prev_hash, worker_metrics, dashVars, deckVars>>

\* the rest of epoch_callback: q.put_nowait(metrics).  With room in the queue
\* the item is admitted and the next loop iteration follows; a full queue
\* raises thread_queue.Full
DashPush(r) ==
    /\ launcher = "dashboard"
    /\ pc[r] = "push"
    /\ IF Len(queue[r]) < QueueSize
       THEN /\ queue' = [queue EXCEPT ![r] = Append(@, worker_metrics[r][EpochKey][2])]
            /\ worker_metrics' = [worker_metrics EXCEPT ![r] = EmptyDict]
            /\ epoch' = [epoch EXCEPT ![r] = @ + 1]
            /\ pc' = [pc EXCEPT ![r] = "loop"]
       ELSE /\ pc' = [pc EXCEPT ![r] = "push_full"]
            /\ UNCHANGED <<queue, worker_metrics, epoch>>
    /\ UNCHANGED <<chainVars, sideVars, historyVars, launcher, protocol, storeVars, engineVars, worker_prev_hash, api, deckVars>>

\* a push that drops the newest item of a full queue instead of the oldest
DashPushFull_DropNewest(r) ==
    /\ launcher = "dashboard"
    /\ pc[r] = "push_full"
    /\ queue' = [queue EXCEPT ![r] =
                     Append(IF @ = <<>> THEN @ ELSE SubSeq(@, 1, Len(@) - 1),
                            worker_metrics[r][EpochKey][2])]
    /\ worker_metrics' = [worker_metrics EXCEPT ![r] = EmptyDict]
    /\ epoch' = [epoch EXCEPT ![r] = @ + 1]
    /\ pc' = [pc EXCEPT ![r] = "loop"]
    /\ UNCHANGED <<chainVars, sideVars, historyVars, launcher, protocol, storeVars, engineVars, worker_prev_hash, api, deckVars>>

\* `except thread_queue.Full:` - the oldest item is dropped and the new one
\* admitted; a consumer may have pulled since the queue was found full
DashPushFull(r) ==
    /\ launcher = "dashboard"
    /\ pc[r] = "push_full"
    /\ queue' = [queue EXCEPT ![r] = PutDropOldest(@, worker_metrics[r][EpochKey][2])]
    /\ worker_metrics' = [worker_metrics EXCEPT ![r] = EmptyDict]
    /\ epoch' = [epoch EXCEPT ![r] = @ + 1]
    /\ pc' = [pc EXCEPT ![r] = "loop"]
    /\ UNCHANGED <<chainVars, sideVars, historyVars, launcher, protocol, storeVars, engineVars, worker_prev_hash, api, deckVars>>

\* `run.status = "completed"; db.commit()` after engine.run returned
DashMarkComplete(r) ==
    /\ launcher = "dashboard"
    /\ pc[r] = "returned"
    /\ run_status' = [run_status EXCEPT ![r] = "completed"]
    /\ pc' = [pc EXCEPT ![r] = "finally"]
    /\ UNCHANGED <<chainVars, sideVars, historyVars, launcher, protocol, run_seed_col, current_epoch, final_hash,
                   epoch_logs, engineVars, epoch, worker_prev_hash, worker_metrics,
                   dashVars, deckVars>>

\* the except block: `run.status = "failed"; db.commit()`
DashMarkFailed(r) ==
    /\ launcher = "dashboard"
    /\ pc[r] \in {"except", "except_db"}
    /\ run_status' = [run_status EXCEPT ![r] = "failed"]
    /\ worker_metrics' = [worker_metrics EXCEPT ![r] = EmptyDict]
    /\ pc' = [pc EXCEPT ![r] = "finally"]
    /\ UNCHANGED <<chainVars, sideVars, historyVars, launcher, protocol, run_seed_col, current_epoch, final_hash,
                   epoch_logs, engineVars, epoch, worker_prev_hash, dashVars, deckVars>>

\* the except block uses the session whose commit has just failed: its query
\* or commit may raise in turn, and then the status is not written
DashHandlerRaises(r) ==
    /\ launcher = "dashboard"
    /\ pc[r] = "except_db"
    /\ worker_metrics' = [worker_metrics EXCEPT ![r] = EmptyDict]
    /\ pc' = [pc EXCEPT ![r] = "finally"]
    /\ UNCHANGED <<chainVars, sideVars, historyVars, launcher, protocol, storeVars, engineVars, epoch,
                   worker_prev_hash, dashVars, deckVars>>

\* a finally block that puts the sentinel in front of the waiting items
DashPutSentinel_AtHead(r) ==
    /\ launcher = "dashboard"
    /\ pc[r] = "finally"
    /\ Len(queue[r]) < QueueSize
    /\ queue' = [queue EXCEPT ![r] = <<STREAM_END>> \o @]
    /\ pc' = [pc EXCEPT ![r] = "done"]
    /\ UNCHANGED <<chainVars, sideVars, historyVars, launcher, protocol, storeVars, engineVars, epoch,
                   worker_prev_hash, worker_metrics, api, deckVars>>

\* finally: q.put(_STREAM_END), a blocking put
DashPutSentinel(r) ==
    /\ launcher = "dashboard"
    /\ pc[r] = "finally"
    /\ Len(queue[r]) < QueueSize
    /\ queue' = [queue EXCEPT ![r] = Append(@, STREAM_END)]
    /\ pc' = [pc EXCEPT ![r] = "done"]
    /\ UNCHANGED <<chainVars, sideVars, historyVars, launcher, protocol, storeVars, engineVars, epoch,
                   worker_prev_hash, worker_metrics, api, deckVars>>

\* app/api/ws.py: q.get(timeout=5.0) of a stream consumer
ConsumerPull(r) ==
    /\ launcher = "dashboard"
    /\ queue[r] # <<>>
    /\ queue' = [queue EXCEPT ![r] = Tail(@)]
    /\ pulled' = [pulled EXCEPT ![r] = TRUE]
    /\ UNCHANGED <<chainVars, sideVars, stop_accepted, paused_appends, launcher, protocol, storeVars, engineVars, workerVars, api, deckVars>>

\* POST /api/runs/{run_id}/stop|pause|resume, first half: the Run row is
\* loaded and RunManager.stop_run / pause_run / resume_run calls the engine
ApiRequest(r, cmd) ==
    /\ launcher = "dashboard"
    /\ api = NoRequest
    /\ run_status[r] # "absent"
    /\ IF pc[r] = "dead"
       THEN UNCHANGED <<_paused, _stopped>>     \* self._engines.get(run_id) is None
       ELSE CASE cmd = "stop" -> EngineStop(r)
              [] cmd = "pause" -> EnginePause(r)
              [] cmd = "resume" -> EngineResume(r)
    /\ api' = [cmd |-> cmd, run |-> r, loaded |-> run_status[r]]
    /\ stop_accepted' = [stop_accepted EXCEPT ![r] =
                             @ \/ (cmd = "stop" /\ run_status[r] \in {"running", "paused"})]
    /\ paused_appends' = [paused_appends EXCEPT ![r] =
                              IF cmd = "pause" /\ _paused[r] THEN @ ELSE 0]
    /\ UNCHANGED <<chainVars, sideVars, pulled, launcher, protocol, storeVars, epoch_metrics, workerVars, queue, deckVars>>

NewStatus(cmd) ==
    CASE cmd = "stop" -> "stopped"
      [] cmd = "pause" -> "paused"
      [] cmd = "resume" -> "running"

\* second half: `run.status = ...; db.commit()`.  The session writes the
\* column only when the value assigned differs from the one it loaded
ApiCommit ==
    /\ api # NoRequest
    /\ run_status' = IF api.loaded = NewStatus(api.cmd) THEN run_status
                     ELSE [run_status EXCEPT ![api.run] = NewStatus(api.cmd)]
    /\ api' = NoRequest
    /\ UNCHANGED <<chainVars, sideVars, historyVars, launcher, protocol, run_seed_col, current_epoch, final_hash,
                   epoch_logs, engineVars, workerVars, queue, deckVars>>

EngineStep(r) ==
    \/ LoopCheck(r)
    \/ PauseCheck(r)
    \/ Sleep(r)
    \/ RunEpoch(r)
    \/ EngineFault(r)

DashWorker(r) ==
    \/ DashWorkerStart(r)
    \/ EngineStep(r)
    \/ DashPersist(r)
    \/ DashPersistFails(r)
    \/ DashPush(r)
    \/ DashPushFull(r)
    \/ DashMarkComplete(r)
    \/ DashMarkFailed(r)
    \/ DashHandlerRaises(r)
    \/ DashPutSentinel(r)

NextDash ==
    \/ \E r \in Runs : DashWorker(r)
    \/ \E r \in Runs : ConsumerPull(r)
    \/ \E r \in Runs, cmd \in {"stop", "pause", "resume"} : ApiRequest(r, cmd)
    \/ ApiCommit

SpecDash == InitDash /\ [][NextDash]_vars

----------------------------------------------------------------------------
(* app/api/control.py: the Control Deck.  Every section taken under _lock   *)
(* is one step.                                                             *)

InitDeckWith(n) ==
    /\ metrics_list = <<>> /\ run_seed = 1 /\ chain = <<>>
    /\ verdict = Valid /\ phase = "off" /\ tampered_at = None
    /\ launcher = "control_deck"
    /\ protocol = [r \in Runs |-> DefaultProtocol]
    /\ run_status = [r \in Runs |-> "absent"]
    /\ run_seed_col = [r \in Runs |-> 0]
    /\ current_epoch = [r \in Runs |-> 0]
    /\ final_hash = [r \in Runs |-> NoHash]
    /\ epoch_logs = [r \in Runs |-> <<>>]
    /\ _paused = [r \in Runs |-> FALSE]
    /\ _stopped = [r \in Runs |-> FALSE]
    /\ epoch_metrics = [r \in Runs |-> <<>>]
    /\ pc = [r \in Runs |-> "none"]
    /\ epoch = [r \in Runs |-> 0]
    /\ worker_prev_hash = [r \in Runs |-> GENESIS_HASH]
    /\ worker_metrics = [r \in Runs |-> EmptyDict]
    /\ queue = [r \in Runs |-> <<>>]
    /\ api = NoRequest
    /\ d_status = "idle" /\ d_engine = 0 /\ d_run_id = 0
    /\ d_current_epoch = 0 /\ d_live_epochs = <<>> /\ d_error = FALSE
    /\ starts_left = n
    /\ stop_accepted = [r \in Runs |-> FALSE]
    /\ paused_appends = [r \in Runs |-> 0]
    /\ pulled = [r \in Runs |-> FALSE]
    /\ CommIdle
    /\ TwinIdle /\ UnitIdle

\* the Control Deck before the one start request it receives; as the
\* Dashboard of InitDash, it launches a single run
InitDeck == InitDeckWith(1)

\* POST /api/control/start, accepted: _state is reset, _db_create_run stores
\* the Run row with status "running", the worker thread is started
DeckStart(r, sd, p) ==
    /\ launcher = "control_deck"
    /\ starts_left > 0
    /\ d_status # "running"
    /\ run_status[r] = "absent"
    /\ \A q \in Runs : q < r => run_status[q] # "absent"
    /\ d_status' = "running"
    /\ d_current_epoch' = 0
    /\ d_live_epochs' = <<>>
    /\ d_engine' = 0
    /\ d_error' = FALSE
    /\ d_run_id' = r
    /\ starts_left' = starts_left - 1
    /\ run_status' = [run_status EXCEPT ![r] = "running"]
    /\ run_seed_col' = [run_seed_col EXCEPT ![r] = sd]
    /\ protocol' = [protocol EXCEPT ![r] = p]
    /\ pc' = [pc EXCEPT ![r] = "d_created"]
    /\ UNCHANGED <<chainVars, sideVars, historyVars, launcher, current_epoch, final_hash, epoch_logs,
                   engineVars, epoch, worker_prev_hash, worker_metrics, dashVars>>

\* _run: `engine = SimulationEngine(...)` and `_state["engine"] = engine`
DeckRegister(r) ==
    /\ launcher = "control_deck"
    /\ pc[r] = "d_created"
    /\ d_engine' = r
    /\ pc' = [pc EXCEPT ![r] = "loop"]
    /\ UNCHANGED <<chainVars, sideVars, historyVars, launcher, protocol, storeVars, engineVars, epoch,
                   worker_prev_hash, worker_metrics, dashVars,
                   d_status, d_run_id, d_current_epoch, d_live_epochs, d_error, starts_left>>

\* _epoch_cb, the section under _lock
DeckLive(r) ==
    /\ launcher = "control_deck"
    /\ pc[r] = "callback"
    /\ d_current_epoch' = GetEpoch(worker_metrics[r], 0)
    /\ d_live_epochs' = Append(d_live_epochs, GetEpoch(worker_metrics[r], 0))
    /\ pc' = [pc EXCEPT ![r] = "d_write"]
    /\ UNCHANGED <<chainVars, sideVars, historyVars, launcher, protocol, storeVars, engineVars, epoch,
                   worker_prev_hash, worker_metrics, dashVars,
                   d_status, d_engine, d_run_id, d_error, starts_left>>

\* a _db_write_epoch that stores the EpochLog row but leaves the Run row alone
DeckWrite_NoRunUpdate(r) ==
    /\ launcher = "control_deck"
    /\ pc[r] = "d_write"
    /\ LET m == worker_metrics[r]
           current_hash == compute_hash(worker_prev_hash[r], m, run_seed_col[r])
           log == [epoch |-> GetEpoch(m, 0),
                   metrics_json |-> canonical_json(m),
                   hash |-> current_hash,
                   prev_hash |-> worker_prev_hash[r]]
       IN  /\ epoch_logs' = [epoch_logs EXCEPT ![r] = Append(@, log)]
           /\ UNCHANGED <<current_epoch, final_hash>>
           /\ worker_prev_hash' = [worker_prev_hash EXCEPT ![r] = current_hash]
    /\ worker_metrics' = [worker_metrics EXCEPT ![r] = EmptyDict]
    /\ epoch' = [epoch EXCEPT ![r] = @ + 1]
    /\ paused_appends' = [paused_appends EXCEPT ![r] = IF _paused[r] THEN @ + 1 ELSE @]
    /\ pc' = [pc EXCEPT ![r] = "loop"]
    /\ UNCHANGED <<chainVars, sideVars, stop_accepted, pulled, launcher, protocol, run_status, run_seed_col, engineVars,
                   dashVars, deckVars>>

\* _epoch_cb: prev_hash = _db_write_epoch(run_id, m, config.seed, prev_hash)
DeckWrite(r) ==
    /\ launcher = "control_deck"
    /\ pc[r] = "d_write"
    /\ LET m == worker_metrics[r]
           current_hash == compute_hash(worker_prev_hash[r], m, run_seed_col[r])
           log == [epoch |-> GetEpoch(m, 0),
                   metrics_json |-> canonical_json(m),
                   hash |-> current_hash,
                   prev_hash |-> worker_prev_hash[r]]
       IN  /\ epoch_logs' = [epoch_logs EXCEPT ![r] = Append(@, log)]
           /\ current_epoch' = [current_epoch EXCEPT ![r] = GetEpoch(m, 0) + 1]
           /\ final_hash' = [final_hash EXCEPT ![r] = current_hash]
           /\ worker_prev_hash' = [worker_prev_hash EXCEPT ![r] = current_hash]
    /\ worker_metrics' = [worker_metrics EXCEPT ![r] = EmptyDict]
    /\ epoch' = [epoch EXCEPT ![r] = @ + 1]
    /\ paused_appends' = [paused_appends EXCEPT ![r] = IF _paused[r] THEN @ + 1 ELSE @]
    /\ pc' = [pc EXCEPT ![r] = "loop"]
    /\ UNCHANGED <<chainVars, sideVars, stop_accepted, pulled, launcher, protocol, run_status, run_seed_col, engineVars,
                   dashVars, deckVars>>

\* _db_write_epoch raises: the row is not stored, the exception leaves
\* _epoch_cb and engine.run
DeckWriteFails(r) ==
    /\ launcher = "control_deck"
    /\ pc[r] = "d_write"
    /\ pc' = [pc EXCEPT ![r] = "except"]
    /\ UNCHANGED <<chainVars, sideVars, historyVars, launcher, protocol, storeVars, engineVars, epoch,
                   worker_prev_hash, worker_metrics, dashVars, deckVars>>

\* after engine.run(): final_status is read (and "running" turned into
\* "completed") under _lock, then _db_finish_run(run_id, final_status)
DeckFinish(r) ==
    /\ launcher = "control_deck"
    /\ pc[r] = "returned"
    /\ LET final_status == IF d_status = "running" THEN "completed" ELSE d_status
       IN  /\ d_status' = final_status
           /\ run_status' = [run_status EXCEPT ![r] = final_status]
    /\ pc' = [pc EXCEPT ![r] = "done"]
    /\ UNCHANGED <<chainVars, sideVars, historyVars, launcher, protocol, run_seed_col, current_epoch, final_hash,
                   epoch_logs, engineVars, epoch, worker_prev_hash, worker_metrics,
                   dashVars, d_engine, d_run_id, d_current_epoch, d_live_epochs, d_error, starts_left>>

\* the except block of _run
DeckFailed(r) ==
    /\ launcher = "control_deck"
    /\ pc[r] = "except"
    /\ d_status' = "failed"
    /\ d_error' = TRUE
    /\ run_status' = [run_status EXCEPT ![r] = "failed"]
    /\ worker_metrics' = [worker_metrics EXCEPT ![r] = EmptyDict]
    /\ pc' = [pc EXCEPT ![r] = "done"]
    /\ UNCHANGED <<chainVars, sideVars, historyVars, launcher, protocol, run_seed_col, current_epoch, final_hash,
                   epoch_logs, engineVars, epoch, worker_prev_hash,
                   dashVars, d_engine, d_run_id, d_current_epoch, d_live_epochs, starts_left>>

\* POST /api/control/stop
DeckStop ==
    /\ launcher = "control_deck"
    /\ IF d_engine # 0 THEN EngineStop(d_engine) ELSE UNCHANGED <<_paused, _stopped>>
    /\ d_status' = IF d_status = "running" THEN "stopped" ELSE d_status
    /\ stop_accepted' = [r \in Runs |->
                             stop_accepted[r] \/ (r = d_run_id /\ d_status = "running")]
    /\ UNCHANGED <<chainVars, sideVars, paused_appends, pulled, launcher, protocol, storeVars, epoch_metrics, workerVars, dashVars,
                   d_engine, d_run_id, d_current_epoch, d_live_epochs, d_error, starts_left>>

DeckWorker(r) ==
    \/ DeckRegister(r)
    \/ EngineStep(r)
    \/ DeckLive(r)
    \/ DeckWrite(r)
    \/ DeckWriteFails(r)
    \/ DeckFinish(r)
    \/ DeckFailed(r)

NextDeck ==
    \/ \E r \in Runs, sd \in 1..MaxSeed, p \in Protocols : DeckStart(r, sd, p)
    \/ \E r \in Runs : DeckWorker(r)
    \/ DeckStop

SpecDeck == InitDeck /\ [][NextDeck]_vars

\* a run launched from the Dashboard or from the Control Deck
Init == InitDash \/ InitDeck
Next == NextDash \/ NextDeck
Spec == Init /\ [][Next]_vars

\* the same, with the Control Deck receiving as many start requests as there
\* are run ids
SpecRestart == (InitDash \/ InitDeckWith(MaxRuns)) /\ [][Next]_vars

----------------------------------------------------------------------------
(* Properties of the run lifecycle *)

\* the rows of a run as GET /api/runs/{id}/hash-chain reads them:
\* .order_by(EpochLog.epoch)
RECURSIVE OrderByEpoch(_)
OrderByEpoch(rows) ==
    IF rows = <<>> THEN <<>>
    ELSE LET i == CHOOSE x \in 1..Len(rows) :
                      \A y \in 1..Len(rows) :
                          rows[x].epoch < rows[y].epoch \/ (rows[x].epoch = rows[y].epoch /\ x <= y)
             rest == [j \in 1..(Len(rows) - 1) |-> IF j < i THEN rows[j] ELSE rows[j + 1]]
         IN  <<rows[i]>> \o OrderByEpoch(rest)

StoredChain(r) == OrderByEpoch(epoch_logs[r])

C4_TerminalStatusImmutable ==
    [][\A r \in Runs : run_status[r] \in Terminal => run_status'[r] = run_status[r]]_vars

\* C5: no EpochRecord is appended for a run whose status is already terminal.
C5_NoAppendAfterTerminal ==
    [][\A r \in Runs : run_status[r] \in Terminal => epoch_logs'[r] = epoch_logs[r]]_vars

\* C7: after stop has been issued the worker starts no new epoch.
C7_NoEpochStartsAfterStop ==
    [][\A r \in Runs : (pc[r] # "in_epoch" /\ pc'[r] = "in_epoch") => ~_stopped[r]]_vars

\* C6: a stop issued while the run is running or paused ends in status
\* stopped: once the worker has finished and no request is in progress, the
\* stored status is "stopped" (or "failed", when a fault ended the run).
C6_StopYieldsStopped ==
    \A r \in Runs :
        (stop_accepted[r] /\ pc[r] = "done" /\ api = NoRequest)
            => run_status[r] \in {"stopped", "failed"}

SpecDashFair == SpecDash /\ \A r \in Runs : WF_vars(EngineStep(r))

\* C9: the epochs run() executes are 0,1,2,... in this order, each once; a
\* run() that returns without stop having been called has executed all
\* num_epochs of them; and a worker waiting in the pause loop proceeds to the
\* next epoch once resume() has cleared the flag (unless paused again).
C9_EpochsOnceInOrder ==
    /\ [](\A r \in Runs :
            /\ epoch_metrics[r] = [i \in 1..Len(epoch_metrics[r]) |-> i - 1]
            /\ (pc[r] = "returned" /\ ~_stopped[r]) => Len(epoch_metrics[r]) = NumEpochs)
    /\ \A r \in Runs :
            (pc[r] \in {"pause_check", "sleeping"} /\ ~_paused[r])
                ~> (pc[r] = "in_epoch" \/ _paused[r])

C9_Witness ==
    \E r \in Runs : pc[r] = "sleeping" /\ ~_paused[r] /\ ~_stopped[r]
                    /\ epoch_metrics[r] = <<0>>

Applicable(cmd, status) ==
    CASE cmd = "pause" -> status = "running"
      [] cmd = "resume" -> status = "paused"
      [] cmd = "stop" -> status \in {"running", "paused"}
      [] OTHER -> TRUE

\* C10: a pause, resume or stop request that finds the run in a state where
\* the command does not apply changes neither the engine's flags nor the
\* stored status.
C10_InapplicableIsNoOp ==
    [][/\ (api = NoRequest /\ api' # NoRequest /\ ~Applicable(api'.cmd, api'.loaded))
            => (_paused' = _paused /\ _stopped' = _stopped)
       /\ (api # NoRequest /\ api' = NoRequest /\ ~Applicable(api.cmd, api.loaded))
            => run_status' = run_status]_vars

----------------------------------------------------------------------------
(* Properties of the store and of the delivery queue *)

EpochItems(q) == SelectSeq(q, LAMBDA x : x # STREAM_END)

\* the n most recent of the first k epoch items pushed: k-n, ..., k-1
MostRecent(k, n) ==
    LET m == IF k < n THEN k ELSE n
    IN  [i \in 1..m |-> k - m + i - 1]

\* C12: the delivery queue never holds more than QueueSize items; its items
\* are pending epochs in the order pushed, ending with the most recent one;
\* and as long as no consumer has pulled, it holds exactly the QueueSize most
\* recent items pushed (all of them while they fit), the oldest having been
\* dropped by each push that found the queue full.
C12_QueueKeepsMostRecent ==
    \A r \in Runs :
        /\ Len(queue[r]) <= QueueSize
        /\ LET items == EpochItems(queue[r])
           IN  /\ items = [i \in 1..Len(items) |-> epoch[r] - Len(items) + i - 1]
               /\ ~pulled[r] => items = MostRecent(epoch[r], QueueSize)

C12_Witness ==
    \E r \in Runs : ~pulled[r] /\ epoch[r] = QueueSize + 1 /\ Len(queue[r]) = QueueSize

\* C13: every started run gets its end-of-stream sentinel, however full the
\* queue is and whether or not a consumer pulls: when the worker reaches the
\* blocking q.put(_STREAM_END) of its finally block, the put can proceed.
C13_SentinelNeverBlocked ==
    \A r \in Runs : pc[r] = "finally" => Len(queue[r]) < QueueSize

----------------------------------------------------------------------------
(* simulation/comm_buffer.py: CommBuffer.  Agent names are 1..NumAgents, in  *)
(* the canonical order "A", "B", "C", ...; a signal is a vector of           *)
(* signal_dim numbers.                                                      *)

NumAgents == 3          \* CommBufferConfig.num_agents
SignalDim == 1          \* CommBufferConfig.signal_dim

Agents == 1..NumAgents
Signals == [1..SignalDim -> {1, 2}]

\* torch.zeros(n) and torch.zeros_like(sig)
zeros(n) == [i \in 1..n |-> 0]
zeros_like(sig) == zeros(Len(sig))

\* torch.cat over the values of a dict, in the dict's order
RECURSIVE cat(_)
cat(pairs) == IF pairs = <<>> THEN <<>> ELSE pairs[1][2] \o cat(Tail(pairs))

\* d[name] = sig on an insertion-ordered dict: an existing key keeps its
\* place, a new key goes to the end
DictSet(d, name, sig) ==
    IF \E i \in 1..Len(d) : d[i][1] = name
    THEN [i \in 1..Len(d) |-> IF d[i][1] = name THEN <<name, sig>> ELSE d[i]]
    ELSE Append(d, <<name, sig>>)

\* CommBuffer.receive: the signals of all other agents, zeroed when killed
receive(buffer, killed, agent_name) ==
    LET others == SelectSeq(buffer, LAMBDA p : p[1] # agent_name)
    IN  [i \in 1..Len(others) |->
            <<others[i][1], IF killed THEN zeros_like(others[i][2]) ELSE others[i][2]>>]

\* CommBuffer.receive_all
receive_all(buffer, killed, agent_name) ==
    LET signals == receive(buffer, killed, agent_name)
    IN  IF signals = <<>> THEN zeros(SignalDim * (NumAgents - 1)) ELSE cat(signals)

LifeOff ==
    /\ LifeIdle
    /\ metrics_list = <<>> /\ run_seed = 1 /\ chain = <<>>
    /\ verdict = Valid /\ phase = "off" /\ tampered_at = None

InitComm == LifeOff /\ CommIdle /\ TwinIdle /\ UnitIdle

\* send() without .detach().clone(): the buffer keeps the caller's object
Send_NoCopy(agent_name, signal, signal_type) ==
    /\ _buffer' = DictSet(_buffer, agent_name, signal)
    /\ _type_buffer' = With(_type_buffer, agent_name, signal_type)
    /\ last_sent' = DictSet(last_sent, agent_name, signal)
    /\ result' = NoResult
    /\ after_restore' = FALSE
    /\ held' = IF held.value = signal
               THEN [held EXCEPT !.sent = agent_name, !.alias = agent_name] ELSE held
    /\ UNCHANGED <<_killed, _history, _type_history, chainVars, lifeVars, twinVars, unitVars>>

\* the stored signal is signal.detach().clone(), an object of its own
Send(agent_name, signal, signal_type) ==
    /\ _buffer' = DictSet(_buffer, agent_name, signal)
    /\ _type_buffer' = With(_type_buffer, agent_name, signal_type)
    /\ last_sent' = DictSet(last_sent, agent_name, signal)
    /\ result' = NoResult
    /\ after_restore' = FALSE
    /\ held' = IF held.value = signal THEN [held EXCEPT !.sent = agent_name] ELSE held
    /\ UNCHANGED <<_killed, _history, _type_history, chainVars, lifeVars, twinVars, unitVars>>

ReceiveAll(agent_name) ==
    /\ result' = [agent |-> agent_name, value |-> receive_all(_buffer, _killed, agent_name)]
    /\ UNCHANGED <<_buffer, _killed, last_sent, after_restore, frameVars, held,
                   chainVars, lifeVars, twinVars, unitVars>>

\* a kill() that also empties the buffer
Kill_DropsSignals ==
    /\ _killed' = TRUE
    /\ _buffer' = <<>>
    /\ result' = NoResult
    /\ after_restore' = FALSE
    /\ UNCHANGED <<last_sent, frameVars, held, chainVars, lifeVars, twinVars, unitVars>>

Kill ==
    /\ _killed' = TRUE
    /\ result' = NoResult
    /\ after_restore' = FALSE
    /\ UNCHANGED <<_buffer, last_sent, frameVars, held, chainVars, lifeVars, twinVars, unitVars>>

Restore ==
    /\ _killed' = FALSE
    /\ result' = NoResult
    /\ after_restore' = _killed
    /\ UNCHANGED <<_buffer, last_sent, frameVars, held, chainVars, lifeVars, twinVars, unitVars>>

\* clear() empties _buffer only
Clear ==
    /\ _buffer' = <<>>
    /\ last_sent' = <<>>
    /\ result' = NoResult
    /\ after_restore' = FALSE
    /\ held' = [held EXCEPT !.alias = 0]
    /\ UNCHANGED <<_killed, frameVars, chainVars, lifeVars, twinVars, unitVars>>

\* reset() clears both buffers, both histories and the kill flag
Reset ==
    /\ _buffer' = <<>>
    /\ last_sent' = <<>>
    /\ _type_buffer' = <<>>
    /\ _history' = <<>>
    /\ _type_history' = <<>>
    /\ _killed' = FALSE
    /\ result' = NoResult
    /\ after_restore' = FALSE
    /\ held' = [held EXCEPT !.alias = 0]
    /\ UNCHANGED <<chainVars, lifeVars, twinVars, unitVars>>

\* the callers of SpecComm pass temporaries and the default signal type
NextComm ==
    \/ \E a \in Agents, sig \in Signals : Send(a, sig, 0)
    \/ \E a \in Agents : ReceiveAll(a)
    \/ Kill
    \/ Restore
    \/ Clear
    \/ Reset

SpecComm == InitComm /\ [][NextComm]_vars

----------------------------------------------------------------------------
(* Properties of the CommBuffer *)

\* the signals the agents other than x have sent since the last clear, in the
\* order of their first send
SentByOthers(x) == SelectSeq(last_sent, LAMBDA p : p[1] # x)

\* the same signals in the canonical agent order
CanonicalOthers(x) ==
    LET sig(a) == (CHOOSE p \in {last_sent[i] : i \in 1..Len(last_sent)} : p[1] = a)[2]
        names == SelectSeq([a \in 1..NumAgents |-> a],
                           LAMBDA a : a # x /\ \E i \in 1..Len(last_sent) : last_sent[i][1] = a)
    IN  [i \in 1..Len(names) |-> <<names[i], sig(names[i])>>]

\* C14: a receive_all made while the channel is killed returns zeros only; one
\* made while it is not killed - in particular the first one after restore(),
\* with no send in between - returns the values the other agents sent,
\* unchanged: kill() and restore() never destroy stored signals.
C14_KillZeroesRestoreReturns ==
    result # NoResult =>
        IF _killed
        THEN \A i \in 1..Len(result.value) : result.value[i] = 0
        ELSE SentByOthers(result.agent) # <<>>
                 => result.value = cat(SentByOthers(result.agent))

C14_Witness ==
    /\ result # NoResult /\ after_restore
    /\ \E i \in 1..Len(result.value) : result.value[i] # 0

\* C15: receive_all(x) is the concatenation of the other agents' signals in
\* the canonical agent order, whatever order the agents called send in.
C15_CanonicalOrder ==
    (result # NoResult /\ ~_killed /\ SentByOthers(result.agent) # <<>>)
        => result.value = cat(CanonicalOthers(result.agent))

\* C16: receive_all(x) always has signal_dim * (num_agents - 1) entries.
C16_FixedLength ==
    result # NoResult => Len(result.value) = SignalDim * (NumAgents - 1)

----------------------------------------------------------------------------
(* Two runs launched with the same seed and the same epoch and episode      *)
(* counts, side by side: each step is one iteration of engine.run together  *)
(* with the epoch callback that persists its record.                        *)

InitTwin ==
    /\ LifeIdle /\ CommIdle /\ TwinIdle /\ UnitIdle
    /\ metrics_list = <<>> /\ chain = <<>>
    /\ verdict = Valid /\ phase = "off" /\ tampered_at = None
    /\ run_seed \in 1..MaxSeed

TwinEpoch(k) ==
    /\ Len(twin_logs[k]) < NumEpochs
    /\ LET e == Len(twin_logs[k])
           \* each engine's own buffer has just been reset: is_killed is False
           m == CallbackMetrics(EngineMetrics(e, EpochOutcome(run_seed, e), clock, protocol[k],
                                              FALSE))
           prev == IF e = 0 THEN GENESIS_HASH ELSE twin_logs[k][e].hash
           epoch_log == [epoch |-> m[EpochKey][2],
                         metrics_json |-> canonical_json(m),
                         hash |-> compute_hash(prev, m, run_seed),
                         prev_hash |-> prev]
       IN  twin_logs' = [twin_logs EXCEPT ![k] = Append(@, epoch_log)]
    /\ clock' = Tick(clock)
    /\ UNCHANGED <<chainVars, lifeVars, commVars, unitVars>>

NextTwin == \E k \in {1, 2} : TwinEpoch(k)

SpecTwin == InitTwin /\ [][NextTwin]_vars

\* C17: two runs with the same seed and the same epoch and episode counts
\* persist identical EpochRecords: at every index both runs have stored, the
\* metrics and the hash are equal.
C17_SameSeedSameRecords ==
    \A i \in 1..Len(twin_logs[1]) :
        i <= Len(twin_logs[2]) =>
            /\ twin_logs[1][i].metrics_json = twin_logs[2][i].metrics_json
            /\ twin_logs[1][i].hash = twin_logs[2][i].hash

----------------------------------------------------------------------------
\* C18: when a Learner, Environment or protocol call raises during a run, the
\* handler that ends the run leaves the stored status failed and the fault
\* message retained with the run.  The only place either launcher keeps a
\* fault message is _state["error"] of the Control Deck; the runs table has
\* no column for it.
C18_FaultFailsAndKeepsMessage ==
    [][\A r \in Runs :
          (pc[r] = "except" /\ pc'[r] # "except") =>
              /\ run_status'[r] = "failed"
              /\ launcher = "control_deck" /\ d_error' /\ d_run_id' = r]_vars

\* C19: when persisting an epoch fails inside the epoch callback, the handler
\* that ends the run leaves the stored status failed (the run is not left in
\* status running) and no EpochRecord is added by it.
C19_PersistFailureFailsRun ==
    [][\A r \in Runs :
          (pc[r] \in {"except", "except_db"} /\ pc'[r] \notin {"except", "except_db"}) =>
              /\ run_status'[r] = "failed"
              /\ epoch_logs'[r] = epoch_logs[r]]_vars

\* C20: in the Control Deck at most one simulation worker is executing at any
\* time: no start request is accepted while the worker of an earlier run has
\* not yet left _run.
C20_OneDeckWorker ==
    launcher = "control_deck" =>
        Cardinality({r \in Runs : pc[r] \notin {"none", "done"}}) <= 1

----------------------------------------------------------------------------
(* The server process dies and is started again.  Threads, tasks, engines,  *)
(* queues and the Control Deck's _state are lost with the process; the      *)
(* tables survive.  At start-up lifespan calls init_db(), which creates     *)
(* missing tables and touches no row, and the module-level RunManager() and *)
(* _state are built empty.  A run whose worker died has pc "dead".          *)

Restart ==
    /\ \E r \in Runs : pc[r] \notin {"none", "dead"}
    /\ pc' = [r \in Runs |-> IF pc[r] = "none" THEN "none" ELSE "dead"]
    /\ _paused' = [r \in Runs |-> FALSE]
    /\ _stopped' = [r \in Runs |-> FALSE]
    /\ epoch_metrics' = [r \in Runs |-> <<>>]
    /\ epoch' = [r \in Runs |-> 0]
    /\ worker_prev_hash' = [r \in Runs |-> GENESIS_HASH]
    /\ worker_metrics' = [r \in Runs |-> EmptyDict]
    /\ queue' = [r \in Runs |-> <<>>]
    /\ api' = NoRequest
    /\ d_status' = "idle" /\ d_engine' = 0 /\ d_run_id' = 0
    /\ d_current_epoch' = 0 /\ d_live_epochs' = <<>> /\ d_error' = FALSE
    /\ UNCHANGED <<chainVars, sideVars, historyVars, launcher, protocol, storeVars, starts_left>>

NextCrash == Next \/ Restart

SpecCrash == Init /\ [][NextCrash]_vars

\* C21: after the process has started again, every run whose worker died with
\* the old process has a terminal stored status (the start-up pass marked it
\* failed): no Run is left running, paused or pending without a worker.
C21_NoOrphanAfterStartup ==
    \A r \in Runs : pc[r] = "dead" => run_status[r] \in Terminal

----------------------------------------------------------------------------
(* app/api/interventions.py: POST /api/runs/{run_id}/interventions.  _killed *)
(* is the flag of the comm buffer of the Dashboard run's engine.             *)

\* the request is served only for a stored status "running" and a registered
\* engine; otherwise it is answered with HTTP 400 and nothing changes
InterventionAccepted(r) == run_status[r] = "running" /\ pc[r] # "dead"

Intervene(r, intervention_type) ==
    /\ launcher = "dashboard"
    /\ InterventionAccepted(r)
    /\ IF intervention_type = "kill_switch" THEN Kill ELSE Restore

NextIntervene ==
    \/ NextDash
    \/ \E r \in Runs, t \in {"kill_switch", "restore_comm"} : Intervene(r, t)

SpecIntervene == InitDash /\ [][NextIntervene]_vars

\* C22: kill_communication and restore_communication can be invoked in every
\* lifecycle state of a run (pending, running, paused or terminal): whenever
\* the run exists, the request is served.
C22_InterveneInAnyState ==
    \A r \in Runs : run_status[r] # "absent" => InterventionAccepted(r)

----------------------------------------------------------------------------
(* RunManager.start_run(run_id, config) called with a SimulationConfig of   *)
(* either protocol.                                                         *)

InitManager == \E p \in Protocols : InitDashWith(p)

SpecManager == InitManager /\ [][NextDash]_vars

RequiredKeys == {EnergyRoiStr, TransferEntropyStr, ZipfStr, InquiryStr}

\* C23: every metrics map the RunManager persists and streams contains the
\* keys energy_roi, transfer_entropy, zipf and inquiry, whatever the protocol
\* of the run's engine.
C23_RequiredKeysPresent ==
    \A r \in Runs :
        /\ \A i \in 1..Len(epoch_logs[r]) :
               LET text == epoch_logs[r][i].metrics_json
               IN  \A k \in RequiredKeys : \E j \in 1..Len(text) : text[j][1] = k
        /\ pc[r] \in {"push", "push_full"} =>
               \A k \in RequiredKeys : StrKey(k) \in DOMAIN worker_metrics[r]

----------------------------------------------------------------------------
\* C24: a new epoch starts only while the run is not paused: the worker
\* enters _run_epoch only with engine._paused false.
C24_EpochStartsUnpaused ==
    [][\A r \in Runs :
          (pc[r] # "in_epoch" /\ pc'[r] = "in_epoch") => ~_paused[r]]_vars

----------------------------------------------------------------------------
\* C25: the epoch callback is invoked once per completed epoch, in increasing
\* epoch order, and has returned before the next epoch begins: whenever the
\* worker is at an epoch boundary or inside an epoch, no result is pending and
\* the records written are exactly those of the completed epochs, in order;
\* a pending result is always that of the last completed epoch.
C25_CallbackOncePerEpoch ==
    \A r \in Runs :
        /\ pc[r] \in {"loop", "pause_check", "sleeping", "in_epoch"} =>
               /\ worker_metrics[r] = EmptyDict
               /\ [i \in 1..Len(epoch_logs[r]) |-> epoch_logs[r][i].epoch] = epoch_metrics[r]
        /\ worker_metrics[r] # EmptyDict =>
               /\ epoch_metrics[r] # <<>>
               /\ worker_metrics[r][EpochKey][2] = epoch_metrics[r][Len(epoch_metrics[r])]
               /\ Len(epoch_logs[r]) \in {Len(epoch_metrics[r]) - 1, Len(epoch_metrics[r])}

C25_Witness ==
    \E r \in Runs : pc[r] = "in_epoch" /\ Len(epoch_logs[r]) = 2 /\ epoch[r] = 2

\* C26: the metrics of an epoch become visible to live consumers - the
\* delivery queue of a Dashboard run, the live list of the Control Deck - only
\* after the epoch's EpochRecord has been persisted: every epoch a consumer
\* can observe is in the ledger of the run.
C26_VisibleOnlyAfterPersist ==
    \A r \in Runs :
        LET stored == {epoch_logs[r][i].epoch : i \in 1..Len(epoch_logs[r])}
        IN  /\ \A i \in 1..Len(queue[r]) :
                   queue[r][i] # STREAM_END => queue[r][i] \in stored
            /\ (launcher = "control_deck" /\ d_run_id = r) =>
                   \A i \in 1..Len(d_live_epochs) : d_live_epochs[i] \in stored

\* C27: at every epoch boundary of the active Control Deck run the
\* current_epoch that /live reports equals the number of completed epochs
\* (1 + the index of the last completed epoch, 0 if none) and equals
\* Run.current_epoch in the store.
C27_LiveEpochCountsCompleted ==
    \A r \in Runs :
        (launcher = "control_deck" /\ d_run_id = r
            /\ pc[r] \in {"loop", "pause_check", "in_epoch", "returned"}) =>
                /\ d_current_epoch = Len(epoch_metrics[r])
                /\ d_current_epoch = current_epoch[r]

\* C28: the end-of-stream sentinel is the last item ever enqueued on a run's
\* delivery queue: it is never followed by another item, and once it has
\* been enqueued the queue changes only by a consumer taking its head.
C28_SentinelIsLast ==
    /\ [](\A r \in Runs : \A i \in 1..Len(queue[r]) :
              queue[r][i] = STREAM_END => i = Len(queue[r]))
    /\ [][\A r \in Runs :
              pc[r] = "done" => (queue'[r] = queue[r] \/ queue'[r] = Tail(queue[r]))]_vars

C28_Witness ==
    \E r \in Runs : pc[r] = "done" /\ Len(queue[r]) = 2 /\ queue[r][1] # STREAM_END
                    /\ queue[r][2] = STREAM_END

----------------------------------------------------------------------------
(* The CommBuffer used by a caller that keeps a reference to the tensor it  *)
(* sends and to the tensors it is handed, and changes them in place.        *)

\* the caller creates a tensor and keeps it
Hold(signal) ==
    /\ held' = [value |-> signal, sent |-> 0, alias |-> 0]
    /\ UNCHANGED <<_buffer, _killed, result, last_sent, after_restore, frameVars,
                   chainVars, lifeVars, twinVars, unitVars>>

\* the caller changes the held tensor in place; a stored signal changes with
\* it only if it is the same object
Mutate(signal) ==
    /\ held # NoTensor /\ signal # held.value
    /\ held' = [held EXCEPT !.value = signal]
    /\ _buffer' = IF held.alias # 0 THEN DictSet(_buffer, held.alias, signal) ELSE _buffer
    /\ UNCHANGED <<_killed, result, last_sent, after_restore, frameVars,
                   chainVars, lifeVars, twinVars, unitVars>>

\* snapshot()[name]: `{k: v.clone() for k, v in self._buffer.items()}`
Snapshot(name) ==
    /\ \E i \in 1..Len(_buffer) :
          /\ _buffer[i][1] = name
          /\ held' = [value |-> _buffer[i][2], sent |-> 0, alias |-> 0]
    /\ UNCHANGED <<_buffer, _killed, result, last_sent, after_restore, frameVars,
                   chainVars, lifeVars, twinVars, unitVars>>

\* receive(agent_name)[name]: a clone, or zeros_like when killed
ReceiveOne(agent_name, name) ==
    /\ LET signals == receive(_buffer, _killed, agent_name)
       IN  \E i \in 1..Len(signals) :
              /\ signals[i][1] = name
              /\ held' = [value |-> signals[i][2], sent |-> 0, alias |-> 0]
    /\ UNCHANGED <<_buffer, _killed, result, last_sent, after_restore, frameVars,
                   chainVars, lifeVars, twinVars, unitVars>>

NextAlias ==
    \/ \E sig \in Signals : Hold(sig)
    \/ \E a \in Agents : held # NoTensor /\ Send(a, held.value, 0)
    \/ \E sig \in Signals : Mutate(sig)
    \/ \E a \in Agents : Snapshot(a)
    \/ \E a, b \in Agents : ReceiveOne(a, b)
    \/ Clear

SpecAlias == InitComm /\ [][NextAlias]_vars

\* C29: send stores a copy of the signal's value at send time, replacing any
\* earlier value of that agent: the live frame holds exactly the values last
\* sent since it was emptied, one entry per agent, whatever the caller later
\* does to the tensor it sent or to a tensor handed out by receive or
\* snapshot.
C29_SendStoresCopy ==
    /\ _buffer = last_sent
    /\ \A i, j \in 1..Len(_buffer) : _buffer[i][1] = _buffer[j][1] => i = j

\* the tensor that was sent has since been changed in place, and the frame
\* still holds the value it had when it was sent
C29_Witness ==
    /\ held.sent # 0
    /\ \E i \in 1..Len(_buffer) : _buffer[i][1] = held.sent /\ _buffer[i][2] # held.value

----------------------------------------------------------------------------
(* The CommBuffer as the step loop uses it: typed sends, record_history,    *)
(* clear, reset.                                                            *)

MaxHistory == 1         \* record_history is called at most MaxHistory times between resets

\* 0=DECLARATIVE, 1=INTERROGATIVE, 2=RESPONSE
SignalTypes == 0..2

\* _history.append(self.snapshot()); _type_history.append(dict(self._type_buffer))
RecordHistory ==
    /\ Len(_history) < MaxHistory
    /\ _history' = Append(_history, _buffer)
    /\ _type_history' = Append(_type_history, _type_buffer)
    /\ UNCHANGED <<_buffer, _killed, result, last_sent, after_restore, _type_buffer, held,
                   chainVars, lifeVars, twinVars, unitVars>>

\* which agents and types are in the frame does not depend on the values
\* sent: every send carries the same signal
NextFrame ==
    \/ \E a \in Agents, t \in SignalTypes : Send(a, [i \in 1..SignalDim |-> 1], t)
    \/ RecordHistory
    \/ Clear
    \/ Reset

SpecFrame == InitComm /\ [][NextFrame]_vars

\* C30: after clear() the live frame is empty for signals and for types
\* alike, so a record_history taken while the signal frame is empty records
\* no agent at all, neither a signal nor a type.
C30_ClearEmptiesFrame ==
    /\ _buffer = <<>> => _type_buffer = <<>>
    /\ \A i \in 1..Len(_history) : _history[i] = <<>> => _type_history[i] = <<>>

----------------------------------------------------------------------------
(* simulation/engine.py: the episode and step loops of _run_epoch, as they   *)
(* use the CommBuffer.  Cost multipliers are counted in tenths, and energy   *)
(* and tax in tenths of communication_tax_rate.                              *)

EpisodesPerEpoch == 2   \* SimulationConfig.episodes_per_epoch
MaxSteps == 2           \* SimulationConfig.max_steps: an episode is done by then

DefaultQueryCost == 15          \* SimulationConfig.query_cost = 1.5
QUERY_COST_MULTIPLIER == 15     \* inquiry_metrics.QUERY_COST_MULTIPLIER = 1.5
QueryCosts == {15, 30}          \* the Baseline and High Pressure conditions

DECLARATIVE == 0
INTERROGATIVE == 1
RESPONSE == 2

\* sig.abs().sum().item()
RECURSIVE abs_sum(_)
abs_sum(sig) ==
    IF sig = <<>> THEN 0
    ELSE (IF sig[1] < 0 THEN -sig[1] ELSE sig[1]) + abs_sum(Tail(sig))

\* `for name, signal in signals.items(): send(name, signal, ...)` for the
\* first n agents: what it makes of the signal dict d and of the type dict t
RECURSIVE SendSignals(_, _, _)
SendSignals(d, signals, n) ==
    IF n = 0 THEN d ELSE DictSet(SendSignals(d, signals, n - 1), n, signals[n])

RECURSIVE SendTypes(_, _, _)
SendTypes(t, signal_types, n) ==
    IF n = 0 THEN t ELSE With(SendTypes(t, signal_types, n - 1), n, signal_types[n])

\* the type multiplier part of reward.compute_reward, summed over the agents
\* whose signal of this step is typed QUERY
RECURSIVE QueryTax(_, _, _, _)
QueryTax(query_cost, signals, signal_types, n) ==
    IF n = 0 THEN 0
    ELSE QueryTax(query_cost, signals, signal_types, n - 1)
         + (IF signal_types[n] = INTERROGATIVE THEN query_cost * abs_sum(signals[n]) ELSE 0)

\* any(t == stype for t in step.values())
HasType(step, stype) == \E a \in DOMAIN step : step[a] = stype

\* _compute_qr_coupling without the `if not query_steps` return
compute_qr_coupling_NoGuard(type_history) ==
    LET query_steps == {i \in 1..Len(type_history) : HasType(type_history[i], INTERROGATIVE)}
        followed_by_response ==
            {i \in query_steps : i + 1 <= Len(type_history)
                                 /\ HasType(type_history[i + 1], RESPONSE)}
    IN  <<Cardinality(followed_by_response), Cardinality(query_steps)>>

\* _compute_qr_coupling: the quotient as <<numerator, denominator>>, 0.0 as
\* <<0, 1>>, a division by zero as a denominator of 0
compute_qr_coupling(type_history) ==
    LET query_steps == {i \in 1..Len(type_history) : HasType(type_history[i], INTERROGATIVE)}
        followed_by_response ==
            {i \in query_steps : i + 1 <= Len(type_history)
                                 /\ HasType(type_history[i + 1], RESPONSE)}
    IN  IF query_steps = {} THEN <<0, 1>>
        ELSE <<Cardinality(followed_by_response), Cardinality(query_steps)>>

\* the query_energy loop of compute_inquiry_metrics over the first n steps
RECURSIVE query_energy(_, _, _)
query_energy(type_history, signal_history, n) ==
    IF n = 0 THEN 0
    ELSE LET step == type_history[n]
             sigs == signal_history[n]
             Cost(a) == IF step[a] # INTERROGATIVE THEN 0
                        ELSE LET at == {i \in 1..Len(sigs) : sigs[i][1] = a}
                             IN  IF at = {} THEN 0
                                 ELSE QUERY_COST_MULTIPLIER * abs_sum(sigs[CHOOSE i \in at : TRUE][2])
             RECURSIVE Total(_)
             Total(S) == IF S = {} THEN 0
                         ELSE LET a == CHOOSE x \in S : TRUE IN Cost(a) + Total(S \ {a})
         IN  query_energy(type_history, signal_history, n - 1) + Total(DOMAIN step)

\* the query_energy and query_response_coupling of compute_inquiry_metrics
compute_inquiry_metrics(type_history, signal_history) ==
    IF type_history = <<>>
    THEN [query_energy |-> 0, query_response_coupling |-> <<0, 1>>]
    ELSE [query_energy |->
              query_energy(type_history, signal_history,
                           IF Len(type_history) < Len(signal_history)
                           THEN Len(type_history) ELSE Len(signal_history)),
          query_response_coupling |-> compute_qr_coupling(type_history)]

\* one pass of `while not done`: every agent calls receive_all, then every
\* agent's signal is sent, the frame is recorded, and each agent's reward is
\* charged the tax of its signal
StepLoop(signals, signal_types) ==
    /\ loop.episode < loop.episodes_per_epoch
    /\ loop.step < MaxSteps
    /\ LET incoming == [a \in Agents |-> receive_all(_buffer, _killed, a)]
           buffer == SendSignals(_buffer, signals, NumAgents)
           type_buffer == SendTypes(_type_buffer, signal_types, NumAgents)
           charged == QueryTax(loop.query_cost, signals, signal_types, NumAgents)
           first == loop.episode = 0 /\ loop.step = 0
       IN  /\ _buffer' = buffer
           /\ _type_buffer' = type_buffer
           /\ last_sent' = SendSignals(last_sent, signals, NumAgents)
           /\ _history' = Append(_history, buffer)
           /\ _type_history' = Append(_type_history, type_buffer)
           /\ loop' = [loop EXCEPT !.step = @ + 1,
                                   !.killed = _killed,
                                   !.incoming = incoming,
                                   !.before = IF loop.step = 0 THEN <<>> ELSE loop.sent,
                                   !.sent = SendSignals(<<>>, signals, NumAgents),
                                   !.query_tax = (IF first THEN 0 ELSE @) + charged,
                                   !.extras = <<>>]
    /\ result' = NoResult
    /\ after_restore' = FALSE
    /\ UNCHANGED <<_killed, held, chainVars, lifeVars, twinVars, loom, schedule, body_protocol>>

\* `done` after at least one step: _run_episode returns, the next episode (if
\* any) begins with env.reset and reset_hidden
EndEpisode ==
    /\ loop.episode < loop.episodes_per_epoch
    /\ loop.step >= 1
    /\ loop' = [loop EXCEPT !.episode = @ + 1, !.step = 0]
    /\ UNCHANGED <<commVars, chainVars, lifeVars, twinVars, loom, schedule, body_protocol>>

\* after the last episode: compute_epoch_extras on the buffer's histories,
\* then comm_buffer.reset()
EndEpoch ==
    /\ loop.episodes_per_epoch >= 1
    /\ loop.episode = loop.episodes_per_epoch
    /\ loop' = [loop EXCEPT !.episode = 0, !.step = 0,
                            !.extras = compute_inquiry_metrics(_type_history, _history)]
    /\ _buffer' = <<>>
    /\ last_sent' = <<>>
    /\ _type_buffer' = <<>>
    /\ _history' = <<>>
    /\ _type_history' = <<>>
    /\ _killed' = FALSE
    /\ result' = NoResult
    /\ after_restore' = FALSE
    /\ held' = [held EXCEPT !.alias = 0]
    /\ UNCHANGED <<chainVars, lifeVars, twinVars, loom, schedule, body_protocol>>

\* an engine on its own, configured with n episodes per epoch, a QUERY cost
\* among qcs and a protocol among ps, before its first epoch
InitEngine(n, qcs, ps) ==
    /\ LifeOff /\ CommIdle /\ TwinIdle
    /\ \E qc \in qcs, p \in ps :
          Units(NewLoop(n, qc), NewLoom(p), NewSchedule(p), DefaultProtocol)

\* the signal values vary from step to step, every signal is a DECLARE, and
\* the interventions API may kill and restore communication at any time

NextEpisode ==
    \/ \E sig \in Signals :
          StepLoop([a \in Agents |-> sig], [a \in Agents |-> DECLARATIVE])
    \/ EndEpisode
    \/ EndEpoch
    \/ Kill
    \/ Restore

SpecEpisode ==
    InitEngine(EpisodesPerEpoch, {DefaultQueryCost}, {DefaultProtocol}) /\ [][NextEpisode]_vars

\* C31: the incoming signals an agent receives at step t of an episode are
\* exactly the signals the other agents sent at step t-1 of the same episode,
\* and are all zero at the first step of every episode (communication not
\* being killed): no signal sent in an earlier episode is received in a
\* later one.
C31_ReceivesPreviousStepOfEpisode ==
    (loop.step >= 1 /\ ~loop.killed) =>
        \A a \in Agents :
            loop.incoming[a] =
                IF loop.before = <<>> THEN zeros(SignalDim * (NumAgents - 1))
                ELSE cat(SelectSeq(loop.before, LAMBDA p : p[1] # a))

\* within an episode the claim's case holds: the second step received what
\* the first step sent
C31_SecondStep ==
    (loop.step >= 2 /\ ~loop.killed) =>
        \A a \in Agents :
            loop.incoming[a] = cat(SelectSeq(loop.before, LAMBDA p : p[1] # a))

\* C32: once kill_communication() has been called, every receive_all returns
\* zeros until restore_communication() is called: a step that read the kill
\* flag set received zeros only, and the flag, once set, is cleared by no
\* step other than a restore, whatever step, episode or epoch boundary is
\* crossed.
C32_KilledUntilRestore ==
    /\ [](loop.killed =>
            \A a \in Agents : loop.incoming[a] = zeros(SignalDim * (NumAgents - 1)))
    /\ [][(_killed /\ ~_killed') => after_restore']_vars

\* the half that holds: within an epoch the kill flag is cleared by a restore
\* only
C32_KilledWithinEpoch ==
    [][(_killed /\ ~_killed' /\ loop.episode < loop.episodes_per_epoch) => after_restore']_vars

\* C33: the comm_killed value recorded in the metrics of epoch e is true
\* exactly when communication was in the killed state at the end of epoch
\* e's episodes.
C33_CommKilledRecordsAblation ==
    [][\A r \in Runs :
          (pc[r] = "in_epoch" /\ pc'[r] = "callback") =>
              worker_metrics'[r][StrKey(CommKilledStr)] = <<"bool", _killed>>]_vars

\* what holds instead: every epoch's metrics record comm_killed as false
C33_CommKilledAlwaysFalse ==
    \A r \in Runs :
        StrKey(CommKilledStr) \in DOMAIN worker_metrics[r] =>
            worker_metrics[r][StrKey(CommKilledStr)] = <<"bool", FALSE>>

----------------------------------------------------------------------------
(* The three crystallization detectors: SimulationEngine.                    *)
(* _find_crystallization_epoch (manifest), loom._find_crystallization_epoch  *)
(* (stored report) and control._detect_crystallization (live).  A type       *)
(* entropy is counted in hundredths.                                         *)

MaxRecords == 6             \* epochs in the sequence handed to the detectors
EntropyThreshold == 95      \* `te < 0.95`
StreakLength == 5           \* `count >= 5`

\* the metrics dict of epoch e as the engine of protocol p returns it:
\* Protocol1 adds 'inquiry', Protocol0 adds nothing
EpochRecord(e, te, p) ==
    IF p = 1 THEN [epoch |-> e, inquiry |-> [type_entropy |-> te]]
    ELSE [epoch |-> e]

\* m.get('inquiry') with the given default, then .get('type_entropy')
InquiryEntropy(m) ==
    IF "inquiry" \in DOMAIN m THEN m.inquiry.type_entropy ELSE None

\* SimulationEngine._find_crystallization_epoch for config.protocol = p: the
\* loop from position i on
RECURSIVE engine_find_crystallization_epoch(_, _, _, _, _)
engine_find_crystallization_epoch(p, epochs, i, streak_start, streak_count) ==
    IF p # 1 \/ i > Len(epochs) THEN None
    ELSE LET te == InquiryEntropy(epochs[i])
         IN  IF te # None /\ te < EntropyThreshold
             THEN LET start == IF streak_count = 0 THEN epochs[i].epoch ELSE streak_start
                  IN  IF streak_count + 1 >= StreakLength THEN start
                      ELSE engine_find_crystallization_epoch(p, epochs, i + 1, start,
                                                             streak_count + 1)
             ELSE engine_find_crystallization_epoch(p, epochs, i + 1, None, 0)

\* get_loom_data: the rows of the run ordered by epoch, reduced to Loom fields
loom_epochs(logs) ==
    [i \in 1..Len(logs) |-> [epoch |-> logs[i].epoch, type_entropy |-> InquiryEntropy(logs[i])]]

\* loom._find_crystallization_epoch
RECURSIVE loom_find_crystallization_epoch(_, _, _, _)
loom_find_crystallization_epoch(epochs, i, streak_start, streak_count) ==
    IF i > Len(epochs) THEN None
    ELSE LET te == epochs[i].type_entropy
         IN  IF te # None /\ te < EntropyThreshold
             THEN LET start == IF streak_count = 0 THEN epochs[i].epoch ELSE streak_start
                  IN  IF streak_count + 1 >= StreakLength THEN start
                      ELSE loom_find_crystallization_epoch(epochs, i + 1, start, streak_count + 1)
             ELSE loom_find_crystallization_epoch(epochs, i + 1, None, 0)

\* control._make_loom_epoch: epoch and type_entropy
make_loom_epoch(m, p) ==
    [epoch |-> m.epoch, type_entropy |-> IF p = 1 THEN InquiryEntropy(m) ELSE None]

\* a detector that returns the epoch at which the streak is complete
RECURSIVE detect_crystallization_StreakEnd(_, _, _, _)
detect_crystallization_StreakEnd(epochs, i, streak_start, count) ==
    IF i > Len(epochs) THEN None
    ELSE LET te == epochs[i].type_entropy
         IN  IF te # None /\ te < EntropyThreshold
             THEN IF count + 1 >= StreakLength THEN epochs[i].epoch
                  ELSE detect_crystallization_StreakEnd(epochs, i + 1, streak_start, count + 1)
             ELSE detect_crystallization_StreakEnd(epochs, i + 1, None, 0)

\* control._detect_crystallization
RECURSIVE detect_crystallization(_, _, _, _)
detect_crystallization(epochs, i, streak_start, count) ==
    IF i > Len(epochs) THEN None
    ELSE LET te == epochs[i].type_entropy
         IN  IF te # None /\ te < EntropyThreshold
             THEN LET start == IF count = 0 THEN epochs[i].epoch ELSE streak_start
                  IN  IF count + 1 >= StreakLength THEN start
                      ELSE detect_crystallization(epochs, i + 1, start, count + 1)
             ELSE detect_crystallization(epochs, i + 1, None, 0)

\* the engine finishes one more epoch; its record is appended to
\* epoch_metrics, stored as an EpochLog row and appended to live_epochs
AppendEpoch(te) ==
    /\ Len(loom.epochs) < MaxRecords
    /\ loom' = [loom EXCEPT !.epochs = Append(@, EpochRecord(Len(loom.epochs), te, loom.protocol)),
                            !.crystallization_epoch = NewLoom(loom.protocol).crystallization_epoch]
    /\ UNCHANGED <<chainVars, lifeVars, commVars, twinVars, loop, schedule, body_protocol>>

\* the manifest is written, /loom and /live are requested
Detect ==
    /\ ~loom.crystallization_epoch.called
    /\ LET live_epochs == [i \in 1..Len(loom.epochs) |->
                              make_loom_epoch(loom.epochs[i], loom.protocol)]
       IN  loom' = [loom EXCEPT !.crystallization_epoch =
                       [manifest |-> engine_find_crystallization_epoch(loom.protocol, loom.epochs,
                                                                       1, None, 0),
                        stored |-> loom_find_crystallization_epoch(loom_epochs(loom.epochs),
                                                                   1, None, 0),
                        live |-> detect_crystallization(live_epochs, 1, None, 0),
                        called |-> TRUE]]
    /\ UNCHANGED <<chainVars, lifeVars, commVars, twinVars, loop, schedule, body_protocol>>

\* an engine of either protocol that has not run an epoch yet; its epochs
\* have the type entropies 0.0, 0.94 and 0.95
SpecLoom ==
    InitEngine(0, {0}, Protocols) /\ [][(\E te \in {0, 94, 95} : AppendEpoch(te)) \/ Detect]_vars

\* the first epoch index that begins StreakLength consecutive records with a
\* type entropy below the threshold, None if there is none
FirstStreak(epochs) ==
    LET Low(i) == LET te == InquiryEntropy(epochs[i]) IN te # None /\ te < EntropyThreshold
        starts == {i \in 1..Len(epochs) :
                      /\ i + StreakLength - 1 <= Len(epochs)
                      /\ \A j \in i..(i + StreakLength - 1) : Low(j)}
    IN  IF starts = {} THEN None
        ELSE epochs[CHOOSE i \in starts : \A j \in starts : i <= j].epoch

\* C34: the crystallization epoch is the index of the first epoch that
\* begins a streak of 5 consecutive epochs with type entropy < 0.95, or
\* none, and the three detectors (manifest, stored report, live) return that
\* same result for every sequence of epoch records.
C34_DetectorsAgree ==
    loom.crystallization_epoch.called =>
        /\ loom.crystallization_epoch.manifest = FirstStreak(loom.epochs)
        /\ loom.crystallization_epoch.stored = FirstStreak(loom.epochs)
        /\ loom.crystallization_epoch.live = FirstStreak(loom.epochs)

\* a streak that begins after the first epoch was found by all three
C34_Witness ==
    /\ loom.crystallization_epoch.called
    /\ loom.crystallization_epoch.live = 1
    /\ loom.crystallization_epoch.manifest = 1
    /\ loom.crystallization_epoch.stored = 1

----------------------------------------------------------------------------
(* The inquiry metrics of an epoch of one episode whose signals are typed:   *)
(* every signal has the same value, the types vary.                          *)

NextInquiry ==
    \/ \E signal_types \in [Agents -> SignalTypes] :
          StepLoop([a \in Agents |-> [i \in 1..SignalDim |-> 1]], signal_types)
    \/ EndEpisode
    \/ EndEpoch

SpecInquiry == InitEngine(1, {DefaultQueryCost}, {DefaultProtocol}) /\ [][NextInquiry]_vars

\* the same under any of the preregistered QUERY cost multipliers
SpecPressure == InitEngine(1, QueryCosts, {DefaultProtocol}) /\ [][NextInquiry]_vars

\* C35: query-response coupling over an epoch's type history equals (number
\* of steps i that contain a query and whose step i+1 exists and contains a
\* response) / (number of steps that contain a query); it is exactly 0.0
\* when no step contains a query, is never undefined, and lies in [0, 1].
C35_CouplingIsAnsweredShare ==
    [][(loop.episode = loop.episodes_per_epoch /\ loop'.episode = 0) =>
          LET h == _type_history
              queries == {i \in 1..Len(h) : \E a \in Agents : h[i][a] = INTERROGATIVE}
              answered == {i \in queries :
                              i < Len(h) /\ \E a \in Agents : h[i + 1][a] = RESPONSE}
              qrc == loop'.extras.query_response_coupling
          IN  /\ qrc[2] >= 1
              /\ 0 <= qrc[1] /\ qrc[1] <= qrc[2]
              /\ queries = {} => qrc = <<0, 1>>
              /\ queries # {} => qrc = <<Cardinality(answered), Cardinality(queries)>>]_vars

\* an epoch with two query steps of which the first was answered: 1/2
C35_Witness ==
    /\ loop.extras # <<>>
    /\ loop.extras.query_response_coupling = <<1, 2>>

\* an epoch without any query: the coupling is 0.0
C35_NoQuery ==
    /\ loop.extras # <<>>
    /\ loop.query_tax = 0
    /\ loop.extras.query_response_coupling = <<0, 1>>

\* C36: the query_energy reported for an epoch equals the total
\* communication tax that compute_reward charged in that epoch for signals
\* typed QUERY, for every configured query cost multiplier.
C36_QueryEnergyIsTaxCharged ==
    loop.extras # <<>> => loop.extras.query_energy = loop.query_tax

\* what holds: the two agree when the configured multiplier is 1.5
C36_AgreeAtDefaultCost ==
    (loop.extras # <<>> /\ loop.query_cost = QUERY_COST_MULTIPLIER) =>
        loop.extras.query_energy = loop.query_tax

----------------------------------------------------------------------------
(* simulation/training/temperature.py: get_tau, with its default            *)
(* parameters.  Temperatures and exp() are counted in ten-thousandths and   *)
(* rounded down, so a modelled tau is never above the float the code        *)
(* returns and is below it by less than 0.006.                              *)

MaxTauEpoch == 100      \* get_tau is called for the epochs 0..MaxTauEpoch

TauUnit == 10000        \* 1.0
TauMax == 10000         \* tau_max = 1.0
TauMin == 1000          \* tau_min = 0.1
WarmupEpochs == 20      \* warmup_epochs
DecayEpochs == 60       \* decay_epochs
ExpStep == 9512         \* math.exp(-3.0 / decay_epochs) = 0.95122...

\* math.exp(-3.0 * k / decay_epochs) as the k-th power of exp(-3.0 / decay_epochs)
RECURSIVE exp_decay(_)
exp_decay(k) == IF k = 0 THEN TauUnit ELSE (exp_decay(k - 1) * ExpStep) \div TauUnit

get_tau(e) ==
    IF e < WarmupEpochs THEN TauMax
    ELSE LET elapsed == IF e - WarmupEpochs < DecayEpochs THEN e - WarmupEpochs
                        ELSE DecayEpochs          \* progress = min(..., 1.0)
             tau == TauMin + ((TauMax - TauMin) * exp_decay(elapsed)) \div TauUnit
         IN  IF tau > TauMin THEN tau ELSE TauMin

\* Protocol0.get_tau and Protocol1.get_tau
protocol_get_tau(p, e) == IF p = 1 THEN get_tau(e) ELSE TauUnit

\* _run_epoch(epoch) begins: tau = self.protocol.get_tau(epoch)
TauEpoch ==
    /\ schedule.epoch < MaxTauEpoch
    /\ LET e == IF schedule.epoch = None THEN 0 ELSE schedule.epoch + 1
       IN  schedule' = [schedule EXCEPT !.epoch = e, !.tau = protocol_get_tau(schedule.protocol, e)]
    /\ UNCHANGED <<chainVars, lifeVars, commVars, twinVars, loop, loom, body_protocol>>

\* an engine of either protocol that has not begun an epoch yet
SpecTau == InitEngine(0, {0}, Protocols) /\ [][TauEpoch]_vars

\* C37: with warmup=20, decay_window=60, tau_max=1.0, tau_min=0.1 the
\* schedule gives tau(e) = 1.0 for every epoch e < 20, and once the decay
\* window has elapsed (e >= 80, so at epoch 100) the temperature is at the
\* floor tau_min = 0.1, to within a tenth of tau_min.
C37_TauReachesFloor ==
    (schedule.protocol = 1 /\ schedule.epoch # None) =>
        /\ schedule.epoch < WarmupEpochs => schedule.tau = TauMax
        /\ schedule.epoch >= WarmupEpochs + DecayEpochs =>
               /\ schedule.tau >= TauMin
               /\ schedule.tau - TauMin <= TauMin \div 10

\* what holds: 1.0 during the warmup, then a decrease that stops at
\* 0.1 + 0.9 * exp(-3), about 0.145, and never comes within 0.04 of tau_min
C37_TauStaysAboveFloor ==
    (schedule.protocol = 1 /\ schedule.epoch # None) =>
        /\ schedule.epoch < WarmupEpochs => schedule.tau = TauMax
        /\ schedule.tau - TauMin >= 4 * (TauMin \div 10)

----------------------------------------------------------------------------
(* app/api/runs.py: create_run for a request that names a protocol *)

\* config.protocol of `SimulationConfig(seed=body.seed, ..., survival_bonus=
\* body.survival_bonus)`: the call passes no protocol, the dataclass default
\* applies
create_run_protocol(bp) == DefaultProtocol

InitCreate == \E bp \in Protocols : InitRun(bp, create_run_protocol(bp))

SpecCreate == InitCreate /\ [][NextDash]_vars

\* C38: a run created through the runs API executes under the protocol id
\* given in the creation request: its engine's protocol is the requested
\* one, and the epoch extras are those of the requested protocol (an
\* 'inquiry' entry exactly for protocol 1).
C38_RunsRequestedProtocol ==
    \A r \in Runs :
        /\ epoch_metrics[r] # <<>> => protocol[r] = body_protocol
        /\ epoch_metrics[r] # <<>> /\ pc[r] = "callback" =>
               (StrKey(InquiryStr) \in DOMAIN worker_metrics[r] <=> body_protocol = 1)

\* what holds: whatever the request says, the engine runs the default
\* protocol
C38_RunsDefaultProtocol ==
    \A r \in Runs : pc[r] # "none" => protocol[r] = DefaultProtocol

====
